---------------------------- MODULE Spec2Model ----------------------------
(***************************************************************************)
(* py-noodle node orchestration: the persistent resource tree              *)
(* (pynoodle/node/treeger.py) and the reader-writer lock table             *)
(* (pynoodle/node/lock.py), both kept in one SQLite file and shared by     *)
(* every process.  Each SQLite transaction is one atomic step; a call      *)
(* that runs several transactions is a process with a program counter.     *)
(*                                                                         *)
(* A transaction fails only on a constraint (PRIMARY KEY, FOREIGN KEY):    *)
(* the database is never busy or unreadable.                               *)
(*                                                                         *)
(* A node key is modelled by the list of its dot-separated segments        *)
(* (node_key.split('.')); the empty list is the empty string ''.           *)
(***************************************************************************)
EXTENDS Integers, Sequences, FiniteSets, TLC

\* ------------------------------------------------------------------ bounds
MaxDepth == 2
NClients == 2
\* the chunk size of a transfer (1024 * 1024 in the code), the largest archive
ChunkSize == 2
MaxArchive == 5

\* ------------------------------------------------------------- the universe
KeyPool == { <<"a">>, <<"a", "b">>, <<"a", "c">>, <<"a", "b", "d">> }
\* the keys of a run: the whole pool down to MaxDepth, or one branch of it
TreeKeys == { k \in KeyPool : Len(k) <= MaxDepth }
BranchKeys == TreeKeys \ { <<"a", "c">> }

Clients == { <<"c", i>> : i \in 1..NClients }
Unmounters == { <<"u", i>> : i \in 1..2 }
Mounters == { <<"m", 1>> }

NULL == "NULL"
NullKey == << "<null>" >>
EmptyKey == << >>

\* ModuleCache.templates: the names the configuration registers
Templates == { "names" }
TemplateArgs == { NULL, "names", "ghost" }
ParamArgs == { NULL, "params" }
AccessInfoArg == "http://peer::remote"

\* what a template's mount hook may do (user code)
MountHookResults == { "raise", "nondict", "none", "empty", "dict" }
UnmountHookResults == { "ok", "raise" }

VARIABLES
    nodes,    \* the node table: node_key -> row
    locks,    \* the locks table: a set of rows, lock_id unique
    cl,       \* each client's RWLock object and its place in acquire()
    um,       \* each unmount call in progress
    mt,       \* each mount / proxy_node call in progress
    sched,    \* the processes of this run, and those whose calls may overlap
    last,     \* the step just taken, and what it returned
    hd,       \* each handle user: its node handle and its place in the call
    srv,      \* the CRM server processes running on this instance
    peer,     \* the peer instance: its locks table and its CRM servers
    tx        \* snapshot transfers: the archive, the temp files, each transfer

hvars == << hd, srv, peer >>
vars == << nodes, locks, cl, um, mt, sched, last, hvars, tx >>

\* ------------------------------------------------------------ the node table
\* '.'.join(node_key.split('.')[:-1])
ParentKeyOf(k) == SubSeq(k, 1, Len(k) - 1)

\* `x if x else None` applied to a parent key
NoneIfEmpty(pk) == IF pk = EmptyKey THEN NullKey ELSE pk

\* mutant: the query filters on the parent_key column
_has_node_by_parent(tbl, k) == \E c \in DOMAIN tbl : tbl[c].parent_key = k

_has_node(tbl, k) == k \in DOMAIN tbl

Row(template_name, parent_key, access_info, launch_params) ==
    [ template_name |-> template_name, parent_key |-> parent_key,
      access_info |-> access_info, launch_params |-> launch_params ]

\* INSERT under PRAGMA foreign_keys = ON: the primary key node_key is unique
\* and a non-NULL parent_key must reference an existing row
InsertAllowed(tbl, k, row) ==
    /\ k \notin DOMAIN tbl
    /\ row.parent_key # NullKey => row.parent_key \in DOMAIN tbl

InsertRow(tbl, k, row) ==
    [ x \in DOMAIN tbl \cup {k} |-> IF x = k THEN row ELSE tbl[x] ]

\* the rows an ON DELETE CASCADE removes together with the rows S
RECURSIVE Cascade(_, _)
Cascade(tbl, S) ==
    LET C == { c \in DOMAIN tbl : tbl[c].parent_key \in S } \ S
    IN  IF C = {} THEN S ELSE Cascade(tbl, S \cup C)

DeletedBy(tbl, k) ==
    IF k \in DOMAIN tbl THEN Cascade(tbl, {k}) ELSE {}

\* mutant: the connection does not enable foreign keys, so nothing cascades
_delete_node_no_cascade(tbl, k) ==
    [ x \in DOMAIN tbl \ {k} |-> tbl[x] ]

\* DELETE FROM node WHERE node_key = ?
_delete_node(tbl, k) ==
    [ x \in DOMAIN tbl \ DeletedBy(tbl, k) |-> tbl[x] ]

\* SELECT node_key FROM node WHERE parent_key = ?
_get_child_keys(tbl, k) == { c \in DOMAIN tbl : tbl[c].parent_key = k }

\* module_cache.templates.get(name, None) if name else None
TemplateOf(name) == IF name \in Templates THEN name ELSE NULL

\* access_info is not None and '::' in access_info
IsProxy(row) == row.access_info # NULL

\* ------------------------------------------------------------ the lock table
\* mutant: the INSERT binds lock_type and access_level to each other's column
LockRow_swapped_columns(id, k, t, lv) ==
    [ lock_id |-> id, node_key |-> k, lock_type |-> lv, access_level |-> t ]

LockRow(id, k, t, lv) ==
    [ lock_id |-> id, node_key |-> k, lock_type |-> t, access_level |-> lv ]

LocksOn(tbl, k) == { l \in tbl : l.node_key = k }

is_node_locked(tbl, k) == LocksOn(tbl, k) # {}

has_lock(tbl, id) == \E l \in tbl : l.lock_id = id

\* mutant: a write lock is checked against write locks only
can_acquire_writers_only(tbl, k, t) ==
    Cardinality({ l \in LocksOn(tbl, k) : l.lock_type = "w" }) = 0

\* mutant: a read lock is checked against every lock
can_acquire_exclusive(tbl, k, t) ==
    Cardinality(LocksOn(tbl, k)) = 0

\* mutant: the queries count the locks of every node
can_acquire_no_key_filter(tbl, k, t) ==
    IF t = "w"
    THEN Cardinality(tbl) = 0
    ELSE Cardinality({ l \in tbl : l.lock_type = "w" }) = 0

\* the compatibility check inside BEGIN IMMEDIATE
can_acquire(tbl, k, t) ==
    IF t = "w"
    THEN Cardinality(LocksOn(tbl, k)) = 0
    ELSE Cardinality({ l \in LocksOn(tbl, k) : l.lock_type = "w" }) = 0

\* DELETE FROM locks WHERE lock_id = ?
DeleteLockId(tbl, id) == { l \in tbl : l.lock_id # id }

\* mutant: the DELETE filters on the lock's node_key
release_by_node_key(tbl, id) == { l \in tbl : l.node_key # id[2] }

release(tbl, id) == DeleteLockId(tbl, id)

\* mutant: the DELETE filters on node_key, so a key removes every lock on it
remove_lock_by_node_key(tbl, id) == { l \in tbl : l.node_key # id }

\* mutant: remove_lock deletes nothing
remove_lock_deletes_nothing(tbl, id) == tbl

remove_lock(tbl, id) == DeleteLockId(tbl, id)

\* DELETE FROM locks WHERE node_key IN (...)
unlock_nodes(tbl, ks) == { l \in tbl : l.node_key \notin ks }

\* one RWLock object per owner and key: its id
LockIdOf(p, k) == << p, k >>

\* the access level each client asks for
LevelOf(c) == IF c[2] = 1 THEN "l" ELSE "p"

ClientLocks(tbl) == { l \in tbl : l.lock_id[1] \in Clients }

\* ------------------------------------------------------------------ events
Ev(op, proc, key, ret, err) ==
    [ op |-> op, proc |-> proc, key |-> key, ret |-> ret, err |-> err,
      arg |-> NULL, hook |-> "nocall", pre |-> {}, removed |-> {},
      hooked |-> << >> ]

NoProc == << "-", 0 >>

\* a step inside a call, which returns nothing yet
NoEv == Ev("step", NoProc, NullKey, "run", NULL)

\* ------------------------------------------------------------ process state
ClNone == [ pc |-> "none", key |-> NullKey, type |-> "r" ]
UmIdle == [ pc |-> "idle", root |-> NullKey, stack |-> << >>, ntd |-> << >>,
            cur |-> NullKey, tmpl |-> NULL, kids |-> FALSE, idx |-> 0,
            err |-> NULL, removed |-> {}, hooked |-> << >>, snap |-> << >> ]
MtIdle == [ pc |-> "idle", key |-> NullKey, op |-> "mount", tmpl |-> NULL ]

InCall(p) ==
    \/ p \in Clients /\ cl[p].pc = "wait"
    \/ p \in Unmounters /\ um[p].pc # "idle"
    \/ p \in Mounters /\ mt[p].pc # "idle"

Procs == Clients \cup Unmounters \cup Mounters

\* The schedules explored.  A run has the processes `active`; the calls of the
\* processes in `conc` interleave transaction by transaction; a call of any
\* other process, and any call it would overlap, waits until no call is in
\* progress.
Schedule(active, concurrent, keys) ==
    [ active |-> active, conc |-> concurrent, keys |-> keys ]

Cl1 == <<"c", 1>>
Um1 == <<"u", 1>>
Um2 == <<"u", 2>>
Mt1 == <<"m", 1>>

Schedules ==
    { Schedule({ Cl1, Um1, Mt1 }, {}, TreeKeys),
      Schedule(Clients, Clients, BranchKeys),
      Schedule({ Cl1, Um1, Mt1 }, { Cl1, Um1 }, BranchKeys),
      Schedule({ Um1, Mt1 }, { Um1, Mt1 }, BranchKeys),
      Schedule({ Um1, Um2, Mt1 }, { Um1, Um2 }, BranchKeys) }

active == sched.active
Keys == sched.keys
conc == sched.conc
serial == conc = {}

Busy(p) == { q \in Procs \ {p} : InCall(q) }

MayStart(p) == IF p \in conc THEN Busy(p) \subseteq conc ELSE Busy(p) = {}

\* the users of node handles (connect, link, access, unlink, HTTP calls)
Handles == { <<"h", i>> : i \in 1..2 }

\* no handle: nothing constructed yet, or the call has returned
HdIdle ==
    [ pc |-> "idle", op |-> "none", key |-> NullKey, level |-> "l", type |-> "r",
      kind |-> "none", crm |-> "none", rid |-> FALSE, exc |-> FALSE ]

\* the peer right after its start: RWLock.init clears its locks table
PeerIdle == [ locks |-> {}, srv |-> {} ]

\* the calls of push and pull of one run
Transfers == { <<"x", i>> : i \in 1..2 }

\* a path of the temp directory: absent, or a file with its bytes
NoFile == [ exists |-> FALSE, data |-> << >> ]
File(bytes) == [ exists |-> TRUE, data |-> bytes ]

\* a transfer that has not been called
TxNew ==
    [ pc |-> "new", op |-> "none", src |-> NullKey, key |-> NullKey,
      tkey |-> NullKey, tn |-> NULL, idx |-> 0, tmp |-> NoFile, lastn |-> 0,
      hooks |-> 0, unpacked |-> NoFile, ret |-> "run" ]

\* no transfer called: no archive in pull_cache or push_cache
TxIdle ==
    [ size |-> 0, tar |-> NoFile, ptar |-> NoFile, tree |-> << >>,
      t |-> [ p \in Transfers |-> TxNew ] ]

Init ==
    /\ nodes = << >>
    /\ locks = {}
    /\ cl = [ c \in Clients |-> ClNone ]
    /\ um = [ u \in Unmounters |-> UmIdle ]
    /\ mt = [ m \in Mounters |-> MtIdle ]
    /\ sched \in Schedules
    /\ last = NoEv
    /\ hd = [ h \in Handles |-> HdIdle ]
    /\ srv = {}
    /\ peer = PeerIdle
    /\ tx = TxIdle


\* ------------------------------------------------------- RWLock (lock.py)
\* RWLock.__init__: a lock object for (node_key, access_mode) with its own id
NewLock(c, k, t) ==
    /\ c \in active
    /\ cl[c].pc = "none"
    /\ cl' = [cl EXCEPT ![c] = [ pc |-> "idle", key |-> k, type |-> t ]]
    /\ last' = NoEv
    /\ UNCHANGED << nodes, locks, um, mt, sched, hvars, tx >>

\* the lock object goes out of use (its id is never met again)
DropLock(c) ==
    /\ cl[c].pc = "idle"
    /\ ~has_lock(locks, LockIdOf(c, cl[c].key))
    /\ cl' = [cl EXCEPT ![c] = ClNone]
    /\ last' = NoEv
    /\ UNCHANGED << nodes, locks, um, mt, sched, hvars, tx >>

\* acquire / async_acquire, up to the loop: `if self.acquired(): return`
AcquireCall(c) ==
    /\ cl[c].pc = "idle"
    /\ MayStart(c)
    /\ IF has_lock(locks, LockIdOf(c, cl[c].key))
       THEN /\ cl' = cl
            /\ last' = [Ev("acquire", c, cl[c].key, "ok", NULL) EXCEPT !.pre = {"held"}]
       ELSE /\ cl' = [cl EXCEPT ![c].pc = "wait"]
            /\ last' = NoEv
    /\ UNCHANGED << nodes, locks, um, mt, sched, hvars, tx >>

\* one pass of the loop: BEGIN IMMEDIATE, the check, INSERT and commit, or
\* rollback and sleep(retry_interval)
AcquireAttempt(c) ==
    /\ cl[c].pc = "wait"
    /\ LET k == cl[c].key
           t == cl[c].type
       IN  IF can_acquire(locks, k, t)
           THEN /\ locks' = locks \cup { LockRow(LockIdOf(c, k), k, t, LevelOf(c)) }
                /\ cl' = [cl EXCEPT ![c].pc = "idle"]
                /\ last' = Ev("attempt", c, k, "ok", NULL)
           ELSE /\ locks' = locks
                /\ cl' = cl
                /\ last' = Ev("attempt", c, k, "run", NULL)
    /\ UNCHANGED << nodes, um, mt, sched, hvars, tx >>

\* the loop condition fails (a finite timeout has elapsed): the raise statement
\* formats self.resource_name, which RWLock never sets
AcquireTimeout(c) ==
    /\ cl[c].pc = "wait"
    /\ cl' = [cl EXCEPT ![c].pc = "idle"]
    /\ last' = Ev("acquire", c, cl[c].key, "fail", "AttributeError")
    /\ UNCHANGED << nodes, locks, um, mt, sched, hvars, tx >>

\* RWLock.release
Release(c) ==
    /\ cl[c].pc = "idle"
    /\ MayStart(c)
    /\ locks' = release(locks, LockIdOf(c, cl[c].key))
    /\ last' = [Ev("release", c, cl[c].key, "ok", NULL)
                  EXCEPT !.pre = IF has_lock(locks, LockIdOf(c, cl[c].key))
                                 THEN {"held"} ELSE {}]
    /\ UNCHANGED << nodes, cl, um, mt, sched, hvars, tx >>

\* RWLock.remove_lock(lock_id), called by whoever was given the id
RemoveLock(c) ==
    /\ cl[c].pc # "none"
    /\ Busy(NoProc) \subseteq conc
    /\ locks' = remove_lock(locks, LockIdOf(c, cl[c].key))
    /\ last' = [Ev("remove_lock", c, cl[c].key, "ok", NULL)
                  EXCEPT !.pre = IF has_lock(locks, LockIdOf(c, cl[c].key))
                                 THEN {"held"} ELSE {}]
    /\ UNCHANGED << nodes, cl, um, mt, sched, hvars, tx >>

\* --------------------------------------------- Treeger.mount, proxy_node
TemplateUnknown(t) == t # NULL /\ TemplateOf(t) = NULL

ParentMissing(tbl, k) ==
    LET parent_key == NoneIfEmpty(ParentKeyOf(k))
    IN  parent_key # NullKey /\ ~_has_node(tbl, parent_key)

\* mount, lines 183-206: the existence check and the validations
MountCall(m, k, t, p) ==
    /\ m \in active
    /\ mt[m].pc = "idle"
    /\ MayStart(m)
    /\ LET ev(ret, err) == [Ev("mount", m, k, ret, err) EXCEPT !.arg = t]
       IN  IF _has_node(nodes, k)
           THEN mt' = mt /\ last' = ev("ok", NULL)
           ELSE IF TemplateUnknown(t)
           THEN mt' = mt /\ last' = ev("fail", "template not found")
           ELSE IF ParentMissing(nodes, k)
           THEN mt' = mt /\ last' = ev("fail", "parent not found")
           ELSE /\ mt' = [mt EXCEPT ![m] = [ pc |-> "insert", key |-> k,
                                             op |-> "mount", tmpl |-> t ]]
                /\ last' = NoEv
    /\ UNCHANGED << nodes, locks, cl, um, sched, hvars, tx >>

\* mutant: the isinstance check is missing
LaunchParamsUnchecked(h) == TRUE

\* isinstance(launch_params, dict) or launch_params is None
LaunchParamsValid(h) == h # "nondict"

\* json.dumps(launch_params) if launch_params else None
LaunchParamsJson(h) == IF h = "dict" THEN "json" ELSE NULL

\* mount, lines 208-225: the mount hook, then _insert_node
MountFinish(m) ==
    /\ mt[m].pc = "insert"
    /\ mt[m].op = "mount"
    /\ \E h \in (IF mt[m].tmpl = NULL THEN {"nocall"} ELSE MountHookResults) :
         LET k == mt[m].key
             row == Row(mt[m].tmpl, NoneIfEmpty(ParentKeyOf(k)), NULL, LaunchParamsJson(h))
             ev(ret, err) == [Ev("mount", m, k, ret, err) EXCEPT !.arg = mt[m].tmpl,
                                !.hook = h]
         IN  IF h = "raise"
             THEN nodes' = nodes /\ last' = ev("fail", "hook raised")
             ELSE IF ~LaunchParamsValid(h)
             THEN nodes' = nodes /\ last' = ev("fail", "must be a dictionary")
             ELSE IF ~InsertAllowed(nodes, k, row)
             THEN nodes' = nodes /\ last' = ev("fail", "IntegrityError")
             ELSE nodes' = InsertRow(nodes, k, row) /\ last' = ev("ok", NULL)
    /\ mt' = [mt EXCEPT ![m] = MtIdle]
    /\ UNCHANGED << locks, cl, um, sched, hvars, tx >>

\* proxy_node, lines 156-158
ProxyCall(m, k, t) ==
    /\ m \in active
    /\ mt[m].pc = "idle"
    /\ MayStart(m)
    /\ IF _has_node(nodes, k)
       THEN /\ mt' = mt
            /\ last' = [Ev("proxy", m, k, "ok", NULL) EXCEPT !.arg = t]
       ELSE /\ mt' = [mt EXCEPT ![m] = [ pc |-> "insert", key |-> k,
                                         op |-> "proxy", tmpl |-> t ]]
            /\ last' = NoEv
    /\ UNCHANGED << nodes, locks, cl, um, sched, hvars, tx >>

\* proxy_node, lines 160-176: the INSERT stores the parent key as computed
ProxyFinish(m) ==
    /\ mt[m].pc = "insert"
    /\ mt[m].op = "proxy"
    /\ LET k == mt[m].key
           row == Row(mt[m].tmpl, ParentKeyOf(k), AccessInfoArg, NULL)
           ev(ret, err) == [Ev("proxy", m, k, ret, err) EXCEPT !.arg = mt[m].tmpl]
       IN  IF ~InsertAllowed(nodes, k, row)
           THEN nodes' = nodes /\ last' = ev("fail", "IntegrityError")
           ELSE nodes' = InsertRow(nodes, k, row) /\ last' = ev("ok", NULL)
    /\ mt' = [mt EXCEPT ![m] = MtIdle]
    /\ UNCHANGED << locks, cl, um, sched, hvars, tx >>

\* --------------------------------------------------------- Treeger.unmount
\* the `while node_stack:` test: an empty stack ends the walk
AfterWalk(stack) == IF stack = << >> THEN "delete" ELSE "load"

NtdKeys(ntd) == { ntd[i].key : i \in 1..Len(ntd) }

\* the orders in which a SELECT without ORDER BY may return the rows S
Orders(S) ==
    { o \in [ 1..Cardinality(S) -> S ] : \A i, j \in 1..Cardinality(S) : o[i] = o[j] => i = j }

\* unmount, lines 230-236
UnmountCall(u, k) ==
    /\ u \in active
    /\ um[u].pc = "idle"
    /\ MayStart(u)
    /\ IF ~_has_node(nodes, k)
       THEN /\ um' = um
            /\ last' = Ev("unmount", u, k, "ok", NULL)
       ELSE /\ um' = [um EXCEPT ![u] = [ UmIdle EXCEPT !.pc = "load", !.root = k,
                                          !.stack = << k >>,
                                          !.snap = IF serial THEN nodes ELSE << >> ]]
            /\ last' = NoEv
    /\ UNCHANGED << nodes, locks, cl, mt, sched, hvars, tx >>

\* lines 238-245: pop, _load_node_record(current_key, is_cascade=True), and
\* `continue` at a proxy record
UnmountLoad(u) ==
    /\ um[u].pc = "load"
    /\ LET s == um[u].stack
           current_key == s[Len(s)]
           rest == SubSeq(s, 1, Len(s) - 1)
       IN  IF ~_has_node(nodes, current_key)
           THEN um' = [um EXCEPT ![u].stack = rest, ![u].pc = "fail",
                                 ![u].err = "AttributeError"]
           ELSE IF IsProxy(nodes[current_key])
           THEN um' = [um EXCEPT ![u].stack = rest, ![u].pc = AfterWalk(rest)]
           ELSE um' = [um EXCEPT ![u].stack = rest, ![u].pc = "check",
                                 ![u].cur = current_key,
                                 ![u].tmpl = TemplateOf(nodes[current_key].template_name),
                                 ![u].kids = (_get_child_keys(nodes, current_key) # {})]
    /\ last' = NoEv
    /\ UNCHANGED << nodes, locks, cl, mt, sched, hvars, tx >>

\* lines 249-253: RWLock.is_node_locked(current_key)
UnmountCheck(u) ==
    /\ um[u].pc = "check"
    /\ IF is_node_locked(locks, um[u].cur)
       THEN um' = [um EXCEPT ![u].pc = "fail", ![u].err = "is locked"]
       ELSE um' = [um EXCEPT ![u].pc = "lock",
                             ![u].ntd = Append(@, [ key |-> um[u].cur, template |-> um[u].tmpl ])]
    /\ last' = NoEv
    /\ UNCHANGED << nodes, locks, cl, mt, sched, hvars, tx >>

\* line 254: RWLock.lock_node(current_key, 'w', 'l'), one pass of its acquire
\* loop (no timeout: it retries until granted)
UnmountPreLock(u) ==
    /\ um[u].pc = "lock"
    /\ LET k == um[u].cur
       IN  IF can_acquire(locks, k, "w")
           THEN /\ locks' = locks \cup { LockRow(LockIdOf(u, k), k, "w", "l") }
                /\ um' = [um EXCEPT ![u].pc = IF um[u].kids THEN "kids"
                                              ELSE AfterWalk(um[u].stack)]
           ELSE /\ locks' = locks
                /\ um' = um
    /\ last' = NoEv
    /\ UNCHANGED << nodes, cl, mt, sched, hvars, tx >>

\* lines 258-260: node_stack.extend(self._get_child_keys(current_key))
UnmountChildren(u) ==
    /\ um[u].pc = "kids"
    /\ \E o \in Orders(_get_child_keys(nodes, um[u].cur)) :
         um' = [um EXCEPT ![u].stack = @ \o o, ![u].pc = AfterWalk(um[u].stack \o o)]
    /\ last' = NoEv
    /\ UNCHANGED << nodes, locks, cl, mt, sched, hvars, tx >>

\* lines 263-268, one pass: _delete_node, then the template's unmount hook
UnmountDelete(u) ==
    /\ um[u].pc = "delete"
    /\ um[u].idx < Len(um[u].ntd)
    /\ LET node == um[u].ntd[um[u].idx + 1]
       IN  /\ nodes' = _delete_node(nodes, node.key)
           /\ \E h \in (IF node.template = NULL THEN {"nocall"} ELSE UnmountHookResults) :
                um' = [um EXCEPT ![u].idx = @ + 1,
                                 ![u].removed = @ \cup DeletedBy(nodes, node.key),
                                 ![u].hooked = IF h = "nocall" THEN @ ELSE Append(@, node.key),
                                 ![u].pc = IF h = "raise" THEN "fail" ELSE @,
                                 ![u].err = IF h = "raise" THEN "hook raised" ELSE @]
    /\ last' = NoEv
    /\ UNCHANGED << locks, cl, mt, sched, hvars, tx >>

\* lines 270-273: unlock_nodes and return True
UnmountUnlock(u) ==
    /\ um[u].pc = "delete"
    /\ um[u].idx >= Len(um[u].ntd)
    /\ locks' = unlock_nodes(locks, NtdKeys(um[u].ntd))
    /\ um' = [um EXCEPT ![u] = UmIdle]
    /\ last' = [Ev("unmount", u, um[u].root, "ok", NULL)
                  EXCEPT !.removed = um[u].removed, !.hooked = um[u].hooked,
                         !.pre = NtdKeys(um[u].ntd)]
    /\ UNCHANGED << nodes, cl, mt, sched, hvars, tx >>

\* lines 275-280: the except branch
UnmountFail(u) ==
    /\ um[u].pc = "fail"
    /\ locks' = IF um[u].ntd # << >> THEN unlock_nodes(locks, NtdKeys(um[u].ntd)) ELSE locks
    /\ um' = [um EXCEPT ![u] = UmIdle]
    /\ last' = [Ev("unmount", u, um[u].root, "fail", um[u].err)
                  EXCEPT !.removed = um[u].removed, !.hooked = um[u].hooked,
                         !.pre = NtdKeys(um[u].ntd)]
    /\ UNCHANGED << nodes, cl, mt, sched, hvars, tx >>

\* ------------------------------------------------------------ specification
Next ==
    \/ \E c \in Clients, k \in Keys, t \in {"r", "w"} : NewLock(c, k, t)
    \/ \E c \in Clients : DropLock(c)
    \/ \E c \in Clients : AcquireCall(c)
    \/ \E c \in Clients : AcquireAttempt(c)
    \/ \E c \in Clients : AcquireTimeout(c)
    \/ \E c \in Clients : Release(c)
    \/ \E c \in Clients : RemoveLock(c)
    \/ \E m \in Mounters, k \in Keys, t \in TemplateArgs, p \in ParamArgs : MountCall(m, k, t, p)
    \/ \E m \in Mounters : MountFinish(m)
    \/ \E m \in Mounters, k \in Keys : ProxyCall(m, k, "names")
    \/ \E m \in Mounters : ProxyFinish(m)
    \/ \E u \in Unmounters, k \in Keys : UnmountCall(u, k)
    \/ \E u \in Unmounters : UnmountLoad(u)
    \/ \E u \in Unmounters : UnmountCheck(u)
    \/ \E u \in Unmounters : UnmountPreLock(u)
    \/ \E u \in Unmounters : UnmountChildren(u)
    \/ \E u \in Unmounters : UnmountDelete(u)
    \/ \E u \in Unmounters : UnmountUnlock(u)
    \/ \E u \in Unmounters : UnmountFail(u)

Spec == Init /\ [][Next]_vars

\* --------------------------------------------- node handles (node/node.py)
\* The tree of the handle runs: mount('a'); mount('a.b', 'names') with launch
\* params; proxy_node('a.c', 'names', 'http://peer', 'remote').
KeyA == << "a" >>
KeyB == << "a", "b" >>
KeyC == << "a", "c" >>

HandleTree ==
    InsertRow(
      InsertRow(
        InsertRow(<< >>, KeyA, Row(NULL, NullKey, NULL, NULL)),
        KeyB, Row("names", KeyA, NULL, "json")),
      KeyC, Row("names", KeyA, AccessInfoArg, NULL))

\* the peer's tree: a resource node 'n' and a resource set 's'
PeerN == << "n" >>
PeerS == << "s" >>
PeerX == << "x" >>
PeerKeys == { PeerN, PeerS, PeerX }

PeerTree ==
    InsertRow(
      InsertRow(<< >>, PeerN, Row("names", NullKey, NULL, "json")),
      PeerS, Row(NULL, NullKey, NULL, NULL))

\* a remote reference '<url>::<key>': node_key.startswith('http')
PeerUrl == "http://peer"
RemoteRef(pk) == << PeerUrl >> \o pk
IsRemoteRef(k) == k # << >> /\ k[1] = PeerUrl
RemoteKeyOf(k) == Tail(k)
RemoteRefs == { RemoteRef(pk) : pk \in PeerKeys }

\* a lock id no lock row carries
BogusId == << NoProc, NullKey >>

\* scheme + node_key.replace('.', '_') + '_' + lock_id
ServerAddress(k, id) == << k, id >>

\* noodle.node_server_address(node_key, lock_id, 'p')
node_server_address(k, id) == ServerAddress(k, id)

\* mutant: the shutdown request reaches no server
Shutdown_unsent(servers, addr) == servers

\* cc.rpc.Client.shutdown(address, -1.0)
Shutdown(servers, addr) == servers \ { addr }

\* mutant: _get_node without the resource-set check
GetNodeKind_no_set_check(tbl, k) ==
    IF IsRemoteRef(k) THEN "remote"
    ELSE IF ~_has_node(tbl, k) THEN "missing"
    ELSE IF tbl[k].access_info # NULL THEN "proxy"
    ELSE "local"

\* Treeger._get_node: which handle a key gets, or why it gets none
GetNodeKind(tbl, k) ==
    IF IsRemoteRef(k) THEN "remote"
    ELSE IF ~_has_node(tbl, k) THEN "missing"
    ELSE IF TemplateOf(tbl[k].template_name) = NULL THEN "set"
    ELSE IF tbl[k].access_info # NULL THEN "proxy"
    ELSE "local"

GetNodeError(kind) ==
    IF kind = "missing" THEN "not found in noodle resource tree"
    ELSE "is a resource set node"

\* connect (no lock_id) and link call _get_node, which constructs the handle;
\* a record that is missing or a resource set raises before any RWLock exists
GetNode(h, op, k, lv, t) ==
    /\ hd[h].pc = "idle"
    /\ k \in Keys
    /\ ~has_lock(locks, LockIdOf(h, k))
    /\ IsRemoteRef(k) => ~has_lock(peer.locks, LockIdOf(h, RemoteKeyOf(k)))
    /\ LET kind == GetNodeKind(nodes, k)
       IN  IF kind \in { "missing", "set" }
           THEN /\ hd' = hd
                /\ last' = Ev(op, h, k, "fail", GetNodeError(kind))
           ELSE /\ hd' = [hd EXCEPT ![h] =
                           [HdIdle EXCEPT !.pc = IF kind = "remote" THEN "handshake" ELSE "acquire",
                                          !.op = op, !.key = k, !.level = lv,
                                          !.type = t, !.kind = kind]]
                /\ last' = NoEv
    /\ UNCHANGED << nodes, locks, cl, um, mt, sched, srv, peer, tx >>

\* activate_memory_server: self._lock.acquire(), one attempt that is granted
HAcquire(h) ==
    /\ hd[h].pc = "acquire"
    /\ can_acquire(locks, hd[h].key, hd[h].type)
    /\ locks' = locks \cup { LockRow(LockIdOf(h, hd[h].key), hd[h].key, hd[h].type, hd[h].level) }
    /\ hd' = [hd EXCEPT ![h].pc = "activate"]
    /\ last' = Ev("attempt", h, hd[h].key, "ok", NULL)
    /\ UNCHANGED << nodes, cl, um, mt, sched, srv, peer, tx >>

\* the timeout passes while an incompatible lock is held
HAcquireTimeout(h) ==
    /\ hd[h].pc = "acquire"
    /\ ~can_acquire(locks, hd[h].key, hd[h].type)
    /\ hd' = [hd EXCEPT ![h] = HdIdle]
    /\ last' = Ev(hd[h].op, h, hd[h].key, "fail", "AttributeError")
    /\ UNCHANGED << nodes, locks, cl, um, mt, sched, srv, peer, tx >>

\* what the activation of a handle meets: the CRM constructor (level l), the
\* launch of the server process and its answer to ping (level p); the launch
\* of a RemoteResourceNodeProxy reads server_address before _remote_url is
\* set, which _launch_crm_server reports as a failed launch
ActivateResults(kind, lv) ==
    IF lv = "l" THEN { "ok", "raise" }
    ELSE IF kind = "proxy" THEN { "launch failed" }
    ELSE { "ok", "launch failed", "TimeoutError" }

\* the state of a handle whose activation is done: connect yields its CRM,
\* link returns node.lock_id
Activated(rec, crm) ==
    [rec EXCEPT !.pc = IF rec.op = "connect" THEN "body" ELSE "linked", !.crm = crm]

ActivatedEv(h, rec) ==
    IF rec.op = "connect" THEN NoEv
    ELSE [Ev("link", h, rec.key, "ok", NULL) EXCEPT !.arg = "lock_id"]

\* activate_memory_server after the lock is held; an exception leaves the
\* constructor with the lock in the table
HActivate(h) ==
    /\ hd[h].pc = "activate"
    /\ \E r \in ActivateResults(hd[h].kind, hd[h].level) :
         LET id == LockIdOf(h, hd[h].key)
             spawned == IF hd[h].level = "p" /\ r # "launch failed"
                        THEN srv \cup { ServerAddress(hd[h].key, id) } ELSE srv
         IN  /\ srv' = spawned
             /\ IF r = "ok"
                THEN /\ hd' = [hd EXCEPT ![h] =
                                Activated(hd[h], IF hd[h].level = "l" THEN "local" ELSE "client")]
                     /\ last' = ActivatedEv(h, hd[h])
                ELSE /\ hd' = [hd EXCEPT ![h] = HdIdle]
                     /\ last' = [Ev(hd[h].op, h, hd[h].key, "fail", r) EXCEPT !.arg = "activate"]
    /\ UNCHANGED << nodes, locks, cl, um, mt, sched, peer, tx >>

\* ------------------------------------- the HTTP relay (endpoints/proxy.py)
\* the ICRM tag of a request: one that matches the template, one that does not
IcrmTags == { "names", "other" }

\* activate_node up to the lock: get_node_info, resource set, module_cache.match
ActivateRefusal(tbl, pk, tag) ==
    IF ~_has_node(tbl, pk) THEN "not found"
    ELSE IF tbl[pk].template_name = NULL THEN "is a resource set"
    ELSE IF tag # tbl[pk].template_name THEN "ICRM tag not match"
    ELSE NULL

\* RemoteResourceNode.__init__: GET <url>/noodle/proxy/ reaches activate_node
\* on the peer; any status but 200 raises RuntimeError in the caller
HttpActivateCall(h, tag) ==
    /\ hd[h].pc = "handshake"
    /\ LET pk == RemoteKeyOf(hd[h].key)
           refusal == ActivateRefusal(PeerTree, pk, tag)
       IN  IF refusal # NULL
           THEN /\ hd' = [hd EXCEPT ![h] = HdIdle]
                /\ last' = [Ev(hd[h].op, h, hd[h].key, "fail", refusal) EXCEPT !.arg = "http activate"]
           ELSE /\ hd' = [hd EXCEPT ![h].pc = "pacquire"]
                /\ last' = NoEv
    /\ UNCHANGED << nodes, locks, cl, um, mt, sched, srv, peer, tx >>

\* activate_node: await lock.async_acquire(), one attempt that is granted
HttpAcquire(h) ==
    /\ hd[h].pc = "pacquire"
    /\ LET pk == RemoteKeyOf(hd[h].key)
       IN  /\ can_acquire(peer.locks, pk, hd[h].type)
           /\ peer' = [peer EXCEPT !.locks =
                         @ \cup { LockRow(LockIdOf(h, pk), pk, hd[h].type, "p") }]
    /\ hd' = [hd EXCEPT ![h].pc = "pactivate"]
    /\ last' = Ev("attempt", h, hd[h].key, "ok", NULL)
    /\ UNCHANGED << nodes, locks, cl, um, mt, sched, srv, tx >>

HttpAcquireTimeout(h) ==
    /\ hd[h].pc = "pacquire"
    /\ ~can_acquire(peer.locks, RemoteKeyOf(hd[h].key), hd[h].type)
    /\ hd' = [hd EXCEPT ![h] = HdIdle]
    /\ last' = [Ev(hd[h].op, h, hd[h].key, "fail", "AttributeError") EXCEPT !.arg = "http activate"]
    /\ UNCHANGED << nodes, locks, cl, um, mt, sched, srv, peer, tx >>

\* activate_node after the lock: launch the server, wait for its ping, return
\* the lock info; an exception becomes status 500 with the lock in the table
HttpActivate(h) ==
    /\ hd[h].pc = "pactivate"
    /\ \E r \in ActivateResults("remote", "p") :
         LET pk == RemoteKeyOf(hd[h].key)
             id == LockIdOf(h, pk)
         IN  /\ peer' = [peer EXCEPT !.srv =
                           IF r # "launch failed" THEN @ \cup { ServerAddress(pk, id) } ELSE @]
             /\ IF r = "ok"
                THEN /\ hd' = [hd EXCEPT ![h] = [Activated(hd[h], "client") EXCEPT !.rid = TRUE]]
                     /\ last' = ActivatedEv(h, hd[h])
                ELSE /\ hd' = [hd EXCEPT ![h] = HdIdle]
                     /\ last' = [Ev(hd[h].op, h, hd[h].key, "fail", r) EXCEPT !.arg = "http activate"]
    /\ UNCHANGED << nodes, locks, cl, um, mt, sched, srv, tx >>

\* mutant: the lock check of deactivate_node lets every lock id pass
DeactivateAllowed_unchecked(p, id) == TRUE

\* deactivate_node on the peer: has_lock, shutdown of the server, remove_lock
DeactivateAllowed(p, id) == has_lock(p.locks, id)

\* mutant: deactivate_node shuts the server down and keeps the lock
Deactivate_keeps_lock(p, pk, id) ==
    [ locks |-> p.locks,
      srv |-> Shutdown(p.srv, node_server_address(pk, id)) ]

Deactivate(p, pk, id) ==
    [ locks |-> remove_lock(p.locks, id),
      srv |-> Shutdown(p.srv, node_server_address(pk, id)) ]

\* the lock ids an HTTP caller may send: one it was given, or any other string
KnownIds(h) ==
    IF hd[h].rid /\ hd[h].pc \in { "body", "linked" }
    THEN { LockIdOf(h, RemoteKeyOf(hd[h].key)), BogusId }
    ELSE { BogusId }

IdArg(id) == IF id = BogusId THEN "unknown id" ELSE "lock_id"

\* proxy_node (POST): has_lock, then cc.rpc.routing to the CRM server
HttpRelay(h, pk, id) ==
    /\ hd[h].pc \in { "idle", "body", "linked" }
    /\ RemoteRef(pk) \in Keys
    /\ id \in KnownIds(h)
    /\ last' = IF has_lock(peer.locks, id)
               THEN [Ev("relay", h, pk, "ok", NULL) EXCEPT !.hook = "routed", !.arg = IdArg(id)]
               ELSE [Ev("relay", h, pk, "fail", "Lock not found") EXCEPT !.arg = IdArg(id)]
    /\ UNCHANGED << nodes, locks, cl, um, mt, sched, hvars, tx >>

\* deactivate_node (DELETE) called over HTTP by the holder of a link, or by
\* anyone with a lock id that is in no table; a holder that deactivates has
\* given up its link
HttpDeactivate(h, pk, id) ==
    /\ hd[h].pc \in { "idle", "linked" }
    /\ RemoteRef(pk) \in Keys
    /\ id \in KnownIds(h)
    /\ IF DeactivateAllowed(peer, id)
       THEN /\ peer' = Deactivate(peer, pk, id)
            /\ hd' = [hd EXCEPT ![h] = HdIdle]
            /\ last' = [Ev("deactivate", h, pk, "ok", NULL) EXCEPT !.hook = "shutdown", !.arg = IdArg(id)]
       ELSE /\ peer' = peer
            /\ hd' = hd
            /\ last' = [Ev("deactivate", h, pk, "fail", "Lock not found") EXCEPT !.arg = IdArg(id)]
    /\ UNCHANGED << nodes, locks, cl, um, mt, sched, srv, tx >>

\* ------------------------------------------ Treeger.connect / link / unlink
\* the with-body of connect: it returns or it raises
ConnectBody(h, exc) ==
    /\ hd[h].pc = "body"
    /\ hd' = [hd EXCEPT ![h].pc = "term", ![h].exc = exc]
    /\ last' = NoEv
    /\ UNCHANGED << nodes, locks, cl, um, mt, sched, srv, peer, tx >>

\* how a connect that has left its body ends
ExitEv(h, rec, err) ==
    [Ev("connect", h, rec.key,
        IF err = NULL /\ ~rec.exc THEN "ok" ELSE "fail",
        IF err # NULL THEN err ELSE IF rec.exc THEN "body raised" ELSE NULL)
     EXCEPT !.arg = "exit",
            !.hook = IF rec.crm # "terminated" THEN "nocall"
                     ELSE IF rec.level = "l" THEN "crm.terminate" ELSE "shutdown"]

\* what terminate meets before the lock is released
\*   ResourceNode, level l: the CRM's terminate hook returns or raises
\*   ResourceNode, level p: client.terminate() and the shutdown
\*   RemoteResourceNodeProxy: self._crm is the local CRM, which has no client,
\*     and _remote_lock_id is None, which the peer's DELETE refuses
TerminateResults(kind, lv) ==
    IF kind = "proxy" THEN { "AttributeError", "deactivate refused" }
    ELSE IF kind = "local" /\ lv = "l" THEN { "ok", "terminate raised" }
    ELSE { "ok" }

\* the finally of connect: node.terminate() up to the release of the lock
HTerminate(h) ==
    /\ hd[h].pc = "term"
    /\ \E r \in TerminateResults(hd[h].kind, hd[h].level) :
         LET k == hd[h].key
             pk == RemoteKeyOf(k)
             rid == LockIdOf(h, pk)
         IN  IF hd[h].kind = "remote"
             THEN /\ srv' = srv
                  /\ hd' = [hd EXCEPT ![h] = HdIdle]
                  /\ IF DeactivateAllowed(peer, rid)
                     THEN /\ peer' = Deactivate(peer, pk, rid)
                          /\ last' = ExitEv(h, hd[h], NULL)
                     ELSE /\ peer' = peer
                          /\ last' = ExitEv(h, hd[h], "deactivate refused")
             ELSE /\ peer' = peer
                  /\ IF r = "ok"
                     THEN /\ srv' = IF hd[h].level = "p"
                                    THEN Shutdown(srv, ServerAddress(k, LockIdOf(h, k))) ELSE srv
                          /\ hd' = [hd EXCEPT ![h].pc = "release", ![h].crm = "terminated"]
                          /\ last' = NoEv
                     ELSE /\ srv' = srv
                          /\ hd' = [hd EXCEPT ![h] = HdIdle]
                          /\ last' = ExitEv(h, hd[h], r)
    /\ UNCHANGED << nodes, locks, cl, um, mt, sched, tx >>

\* ResourceNode.terminate: self._lock.release(), and connect is left
HRelease(h) ==
    /\ hd[h].pc = "release"
    /\ locks' = release(locks, LockIdOf(h, hd[h].key))
    /\ hd' = [hd EXCEPT ![h] = HdIdle]
    /\ last' = ExitEv(h, hd[h], NULL)
    /\ UNCHANGED << nodes, cl, um, mt, sched, srv, peer, tx >>

\* the lock ids the holder of a link may pass: the one link returned (a
\* proxy's link returns None), or any other string
LinkIds(h) ==
    IF hd[h].pc = "linked" /\ hd[h].kind = "local"
    THEN { LockIdOf(h, hd[h].key), BogusId }
    ELSE { BogusId }

LinkKey(h) == IF hd[h].pc = "linked" THEN hd[h].key ELSE KeyB

\* Treeger.access on a local key: has_lock, then an ICRM client on the server
Access(h, id) ==
    /\ hd[h].pc \in { "idle", "linked" }
    /\ LinkKey(h) \in Keys
    /\ ~IsRemoteRef(LinkKey(h))
    /\ id \in LinkIds(h)
    /\ last' = IF has_lock(locks, id)
               THEN [Ev("access", h, LinkKey(h), "ok", NULL) EXCEPT !.arg = IdArg(id)]
               ELSE [Ev("access", h, LinkKey(h), "fail", "Lock not found") EXCEPT !.arg = IdArg(id)]
    /\ UNCHANGED << nodes, locks, cl, um, mt, sched, hvars, tx >>

\* connect(..., lock_id=id) on a local key: RWLock.get_lock_info and its checks
ScopeRefusal(tbl, k, id, t) ==
    IF ~has_lock(tbl, id) THEN "Lock not found"
    ELSE IF (CHOOSE l \in tbl : l.lock_id = id).node_key # k THEN "Lock not found"
    ELSE IF t = "w" /\ (CHOOSE l \in tbl : l.lock_id = id).lock_type = "r"
         THEN "no write permission"
    ELSE NULL

ScopeEnter(h, id, t) ==
    /\ hd[h].pc = "linked"
    /\ ~IsRemoteRef(hd[h].key)
    /\ id \in LinkIds(h)
    /\ LET refusal == ScopeRefusal(locks, hd[h].key, id, t)
       IN  IF refusal # NULL
           THEN /\ hd' = hd
                /\ last' = [Ev("scope", h, hd[h].key, "fail", refusal) EXCEPT !.arg = IdArg(id)]
           ELSE /\ hd' = [hd EXCEPT ![h].pc = "scope"]
                /\ last' = NoEv
    /\ UNCHANGED << nodes, locks, cl, um, mt, sched, srv, peer, tx >>

\* the finally of connect with a lock_id: nothing is terminated or released
ScopeExit(h, exc) ==
    /\ hd[h].pc = "scope"
    /\ hd' = [hd EXCEPT ![h].pc = "linked"]
    /\ last' = [Ev("scope", h, hd[h].key, IF exc THEN "fail" ELSE "ok",
                   IF exc THEN "body raised" ELSE NULL) EXCEPT !.arg = "exit"]
    /\ UNCHANGED << nodes, locks, cl, um, mt, sched, srv, peer, tx >>

\* Treeger.unlink: the lock must exist; a local key shuts its server down and
\* removes the lock, a remote reference sends the DELETE to the peer (for a
\* lock id the peer does not know its lock endpoint answers 500, which unlink
\* raises as RuntimeError)
Unlink(h, id) ==
    /\ hd[h].pc \in { "idle", "linked" }
    /\ LinkKey(h) \in Keys
    /\ LET k == LinkKey(h)
           pk == RemoteKeyOf(k)
       IN  IF IsRemoteRef(k)
           THEN /\ id \in KnownIds(h)
                /\ UNCHANGED << locks, srv >>
                /\ IF DeactivateAllowed(peer, id)
                   THEN /\ peer' = Deactivate(peer, pk, id)
                        /\ hd' = [hd EXCEPT ![h] = HdIdle]
                        /\ last' = [Ev("unlink", h, k, "ok", NULL) EXCEPT !.arg = IdArg(id)]
                   ELSE /\ UNCHANGED << peer, hd >>
                        /\ last' = [Ev("unlink", h, k, "fail", "RuntimeError") EXCEPT !.arg = IdArg(id)]
           ELSE /\ id \in LinkIds(h)
                /\ peer' = peer
                /\ IF has_lock(locks, id)
                   THEN /\ srv' = Shutdown(srv, ServerAddress(k, id))
                        /\ locks' = remove_lock(locks, id)
                        /\ hd' = [hd EXCEPT ![h] = HdIdle]
                        /\ last' = [Ev("unlink", h, k, "ok", NULL) EXCEPT !.arg = IdArg(id)]
                   ELSE /\ UNCHANGED << locks, srv, hd >>
                        /\ last' = [Ev("unlink", h, k, "fail", "Lock not found") EXCEPT !.arg = IdArg(id)]
    /\ UNCHANGED << nodes, cl, um, mt, sched, tx >>

HandleKeys == DOMAIN HandleTree \cup RemoteRefs

\* the keys the callers of one run use: local resources, the proxy, or
\* references to the peer
HandleKeySets == { { KeyA, KeyB }, { KeyC }, RemoteRefs }

HandleInit ==
    /\ nodes = HandleTree
    /\ locks = {}
    /\ cl = [ c \in Clients |-> ClNone ]
    /\ um = [ u \in Unmounters |-> UmIdle ]
    /\ mt = [ m \in Mounters |-> MtIdle ]
    /\ \E ks \in HandleKeySets : sched = Schedule(Handles, Handles, ks)
    /\ last = NoEv
    /\ hd = [ h \in Handles |-> HdIdle ]
    /\ srv = {}
    /\ peer = PeerIdle
    /\ tx = TxIdle

HandleNext ==
    \/ \E h \in Handles, k \in HandleKeys, lv \in { "l", "p" }, t \in { "r", "w" } :
         GetNode(h, "connect", k, lv, t)
    \/ \E h \in Handles, k \in HandleKeys, t \in { "r", "w" } :
         GetNode(h, "link", k, "p", t)
    \/ \E h \in Handles : HAcquire(h)
    \/ \E h \in Handles : HAcquireTimeout(h)
    \/ \E h \in Handles : HActivate(h)
    \/ \E h \in Handles, tag \in IcrmTags : HttpActivateCall(h, tag)
    \/ \E h \in Handles : HttpAcquire(h)
    \/ \E h \in Handles : HttpAcquireTimeout(h)
    \/ \E h \in Handles : HttpActivate(h)
    \/ \E h \in Handles, pk \in PeerKeys : \E id \in KnownIds(h) : HttpRelay(h, pk, id)
    \/ \E h \in Handles, pk \in PeerKeys : \E id \in KnownIds(h) : HttpDeactivate(h, pk, id)
    \/ \E h \in Handles, exc \in BOOLEAN : ConnectBody(h, exc)
    \/ \E h \in Handles : HTerminate(h)
    \/ \E h \in Handles : HRelease(h)
    \/ \E h \in Handles : \E id \in LinkIds(h) : Access(h, id)
    \/ \E h \in Handles, t \in { "r", "w" } : \E id \in LinkIds(h) : ScopeEnter(h, id, t)
    \/ \E h \in Handles, exc \in BOOLEAN : ScopeExit(h, exc)
    \/ \E h \in Handles : \E id \in LinkIds(h) \cup KnownIds(h) : Unlink(h, id)

HandleSpec == HandleInit /\ [][HandleNext]_vars

\* ------------------------------ snapshot transfer (endpoints/node.py)
\* Two peers.  `nodes` and `locks` are the source peer's tables, tx.tar and
\* tx.ptar its archives of SrcKey in pull_cache and push_cache.  tx.tree and
\* peer.locks are the destination peer's tables, tx.t[p].tmp the temp file of
\* transfer p on the destination.
DotRoot == << "", "root" >>
SrcKey == << "", "root", "s" >>
SrcGone == << "", "root", "gone" >>
TgtOccupied == << "", "root", "n" >>
TgtFree == << "", "root", "m" >>
TgtOrphan == << "", "lost", "n" >>

SrcTree ==
    InsertRow(InsertRow(<< >>, DotRoot, Row(NULL, NullKey, NULL, NULL)),
              SrcKey, Row("names", DotRoot, NULL, "json"))
DstTree ==
    InsertRow(InsertRow(<< >>, DotRoot, Row(NULL, NullKey, NULL, NULL)),
              TgtOccupied, Row("names", DotRoot, NULL, NULL))

\* the target keys a transfer is called with: each temp path has one user
TargetsOf(p) == IF p[2] = 1 THEN { TgtOccupied, TgtOrphan } ELSE { TgtFree }

\* the bytes template.pack writes: byte i of the archive is i
Archive(n) == [ i \in 1..n |-> i ]

\* an HTTP call returns the handler's response, or fails on the way
NetResults == { "ok", "fail" }
\* what a template's unpack hook may do (user code; default_unpack takes four
\* arguments and is called with three)
UnpackHookResults == { "ok", "raise" }

\* node_key + suffix: the suffix goes to the last segment
Suffixed(k, sfx) == [k EXCEPT ![Len(k)] = @ \o sfx]

\* tar_lock_key = f'{node_key}_tar'
TarKey(k) == Suffixed(k, "_tar")

\* utils.get_parent_key: a key that does not start with '.' gets one
get_parent_key(k) ==
    LET dotted == IF k[1] # "" THEN << "" >> \o k ELSE k
        parent_key == ParentKeyOf(dotted)
    IN  IF parent_key = << "" >> THEN << "", "" >> ELSE parent_key

\* mutant: an occupied target key is used as it is
TargetKey_no_rename(tbl, k) == k

\* target_node.node_key + '_copy' if the target exists
TargetKey(tbl, k) == IF _has_node(tbl, k) THEN Suffixed(k, "_copy") ELSE k

\* f.seek(off); f.read(n)
ReadChunk(data, off, n) ==
    SubSeq(data, off + 1, IF off + n < Len(data) THEN off + n ELSE Len(data))

\* mutant: a full chunk is the last one too
IsLastChunk_le(chunk) == Len(chunk) <= ChunkSize

\* len(chunk_data) < chunk_size
IsLastChunk(chunk) == Len(chunk) < ChunkSize

\* the unpack hook of tests/crms/schema/hooks.py: the parent must exist, the
\* record of the key it is given is inserted or updated
Unpack(tbl, k, tn) ==
    InsertRow(tbl, k, Row(tn, NoneIfEmpty(ParentKeyOf(k)), NULL, "json"))

UnpackResults(tbl, k) ==
    IF NoneIfEmpty(ParentKeyOf(k)) # NullKey /\ ~_has_node(tbl, ParentKeyOf(k))
    THEN { "raise" } ELSE UnpackHookResults

\* the two lock_node calls of packing and push: read locks on the node and on
\* its tar key, each a new RWLock
TarLocks(p, k) ==
    { LockRow(LockIdOf(p, k), k, "r", "l"),
      LockRow(LockIdOf(p, TarKey(k)), TarKey(k), "r", "l") }

\* the finally of push_to and pull_from: remove_lock is given the two keys
TarUnlock(tbl, k) == remove_lock(remove_lock(tbl, k), TarKey(k))

TxEnd(t, ret) == [t EXCEPT !.pc = "done", !.ret = ret, !.tmp = NoFile]

\* POST /pull up to the packing request: lines 287-311
PullCall(p, src, key, tn) ==
    /\ tx.t[p].pc = "new"
    /\ key \in TargetsOf(p)
    /\ LET tkey == TargetKey(tx.tree, key)
           t == [tx.t[p] EXCEPT !.op = "pull", !.src = src, !.key = key,
                                !.tkey = tkey, !.tn = tn]
       IN  IF TemplateOf(tn) = NULL
           THEN /\ tx' = [tx EXCEPT !.t[p] = TxEnd(t, "fail")]
                /\ last' = Ev("pull", p, key, "fail", "template not found")
           ELSE IF ~_has_node(tx.tree, get_parent_key(tkey))
           THEN /\ tx' = [tx EXCEPT !.t[p] = TxEnd(t, "fail")]
                /\ last' = Ev("pull", p, key, "fail", "parent not found")
           ELSE /\ tx' = [tx EXCEPT !.t[p] = [t EXCEPT !.pc = "packing"]]
                /\ last' = NoEv
    /\ UNCHANGED << nodes, locks, cl, um, mt, sched, hvars >>

\* POST /packing on the source peer (lines 377-402), and the caller up to
\* the first chunk request (lines 312-327)
Packing(p) ==
    /\ tx.t[p].pc = "packing"
    /\ LET t == tx.t[p]
           src == t.src
       IN  IF ~_has_node(nodes, src)
           THEN /\ tx' = [tx EXCEPT !.t[p] = TxEnd(t, "fail")]
                /\ locks' = locks
                /\ last' = Ev("packing", p, src, "fail", "404")
           ELSE /\ can_acquire(locks, src, "r")
                /\ can_acquire(locks, TarKey(src), "r")
                /\ locks' = locks \cup TarLocks(p, src)
                /\ \E net \in NetResults :
                     LET tar == IF tx.tar.exists THEN tx.tar
                                ELSE File(Archive(tx.size))
                     IN  IF net = "fail"
                         THEN /\ tx' = [tx EXCEPT !.tar = tar,
                                                  !.t[p] = TxEnd(t, "fail")]
                              /\ last' = Ev("packing", p, src, "fail", "no response")
                         ELSE /\ tx' = [tx EXCEPT !.tar = tar,
                                          !.t[p] = [t EXCEPT !.pc = "chunks",
                                                             !.tmp = File(<< >>)]]
                              /\ last' = Ev("packing", p, src, "ok", NULL)
    /\ UNCHANGED << nodes, cl, um, mt, sched, hvars >>

\* GET /push_to on the source peer (lines 404-438), and the caller's pass of
\* the loop, with the unpack and the finally after the last chunk (328-375)
PushTo(p) ==
    /\ tx.t[p].pc = "chunks"
    /\ LET t == tx.t[p]
           src == t.src
           chunk == ReadChunk(tx.tar.data, t.idx * ChunkSize, ChunkSize)
           left == TarUnlock(locks, src)
           tar == IF is_node_locked(left, TarKey(src)) THEN tx.tar ELSE NoFile
           file == File(t.tmp.data \o chunk)
           ev(ret, err) == [Ev("push_to", p, src, ret, err)
                              EXCEPT !.removed = IF tar.exists THEN {} ELSE {src}]
       IN  /\ locks' = left
           /\ \E net \in NetResults :
                IF ~tx.tar.exists \/ net = "fail"
                THEN /\ tx' = [tx EXCEPT !.tar = tar, !.t[p] = TxEnd(t, "fail")]
                     /\ last' = ev("fail", "no chunk")
                ELSE IF ~IsLastChunk(chunk)
                THEN /\ tx' = [tx EXCEPT !.tar = tar,
                                 !.t[p] = [t EXCEPT !.tmp = file, !.idx = @ + 1]]
                     /\ last' = ev("run", NULL)
                ELSE \E u \in UnpackResults(tx.tree, t.tkey) :
                     LET t2 == [t EXCEPT !.tmp = file, !.lastn = @ + 1,
                                         !.hooks = @ + 1, !.unpacked = file]
                     IN  IF u = "raise"
                         THEN /\ tx' = [tx EXCEPT !.tar = tar,
                                                  !.t[p] = TxEnd(t2, "fail")]
                              /\ last' = [ev("fail", "unpack raised")
                                            EXCEPT !.hook = u]
                         ELSE /\ tx' = [tx EXCEPT !.tar = tar,
                                          !.tree = Unpack(@, t.tkey, t.tn),
                                          !.t[p] = TxEnd(t2, "ok")]
                              /\ last' = [ev("ok", NULL) EXCEPT !.hook = u]
    /\ UNCHANGED << nodes, cl, um, mt, sched, hvars >>

\* POST /push up to the first chunk request: lines 181-220
PushCall(p, src, key, tn) ==
    /\ tx.t[p].pc = "new"
    /\ key \in TargetsOf(p)
    /\ LET t == [tx.t[p] EXCEPT !.op = "push", !.src = src, !.key = key,
                                !.tn = tn]
           ptar == IF tx.ptar.exists THEN tx.ptar ELSE File(Archive(tx.size))
           ev(ret, err) == Ev("push", p, key, ret, err)
       IN  IF ~_has_node(nodes, src)
           THEN /\ tx' = [tx EXCEPT !.t[p] = TxEnd(t, "fail")]
                /\ locks' = locks
                /\ last' = ev("fail", "source not found")
           ELSE IF TemplateOf(tn) = NULL
           THEN /\ tx' = [tx EXCEPT !.t[p] = TxEnd(t, "fail")]
                /\ locks' = locks
                /\ last' = ev("fail", "template not found")
           ELSE IF ~_has_node(nodes, get_parent_key(src))
           THEN /\ tx' = [tx EXCEPT !.t[p] = TxEnd(t, "fail")]
                /\ locks' = locks
                /\ last' = ev("fail", "parent not found")
           ELSE /\ can_acquire(locks, src, "r")
                /\ can_acquire(locks, TarKey(src), "r")
                /\ locks' = locks \cup TarLocks(p, src)
                /\ IF ReadChunk(ptar.data, 0, ChunkSize) = << >>
                   THEN /\ tx' = [tx EXCEPT !.ptar = ptar,
                                            !.t[p] = TxEnd(t, "ok")]
                        /\ last' = ev("ok", NULL)
                   ELSE /\ tx' = [tx EXCEPT !.ptar = ptar,
                                            !.t[p] = [t EXCEPT !.pc = "pchunks"]]
                        /\ last' = NoEv
    /\ UNCHANGED << nodes, cl, um, mt, sched, hvars >>

\* one pass of the push loop (lines 221-234): POST /pull_from on the
\* destination peer (lines 245-280), then the next read
PushChunk(p) ==
    /\ tx.t[p].pc = "pchunks"
    /\ LET t == tx.t[p]
           chunk == ReadChunk(tx.ptar.data, t.idx * ChunkSize, ChunkSize)
           next == ReadChunk(tx.ptar.data, (t.idx + 1) * ChunkSize, ChunkSize)
           is_last_chunk == IsLastChunk(chunk)
           \* pull_from: the rename, the append, the unpack
           tkey == TargetKey(tx.tree, t.key)
           file == File(t.tmp.data \o chunk)
           left == TarUnlock(peer.locks, t.src)
           tmp == IF is_node_locked(left, TarKey(t.src)) THEN file ELSE NoFile
           t2 == [t EXCEPT !.tkey = tkey, !.tmp = tmp,
                           !.lastn = IF is_last_chunk THEN @ + 1 ELSE @,
                           !.hooks = IF is_last_chunk THEN @ + 1 ELSE @,
                           !.unpacked = IF is_last_chunk THEN file ELSE @]
           ev(u, ret, err) == [Ev("pull_from", p, t.key, ret, err)
                                 EXCEPT !.hook = u]
           \* push: no finally, the temp file is the destination's
           end(ret) == [t2 EXCEPT !.pc = "done", !.ret = ret]
       IN  /\ peer' = [peer EXCEPT !.locks = left]
           /\ \E net \in NetResults :
              \E u \in (IF is_last_chunk THEN UnpackResults(tx.tree, tkey)
                        ELSE { "nocall" }) :
                IF u = "raise"
                THEN /\ tx' = [tx EXCEPT !.t[p] = end("fail")]
                     /\ last' = ev(u, "fail", "unpack raised")
                ELSE LET tree == IF u = "ok" THEN Unpack(tx.tree, tkey, t.tn)
                                 ELSE tx.tree
                     IN  IF net = "fail"
                         THEN /\ tx' = [tx EXCEPT !.tree = tree,
                                                  !.t[p] = end("fail")]
                              /\ last' = ev(u, "fail", "no response")
                         ELSE IF next = << >>
                         THEN /\ tx' = [tx EXCEPT !.tree = tree,
                                                  !.t[p] = end("ok")]
                              /\ last' = ev(u, "ok", NULL)
                         ELSE /\ tx' = [tx EXCEPT !.tree = tree,
                                          !.t[p] = [t2 EXCEPT !.idx = @ + 1]]
                              /\ last' = ev(u, "run", NULL)
    /\ UNCHANGED << nodes, locks, cl, um, mt, sched, hd, srv >>

TransferInit ==
    /\ nodes = SrcTree
    /\ locks = {}
    /\ cl = [ c \in Clients |-> ClNone ]
    /\ um = [ u \in Unmounters |-> UmIdle ]
    /\ mt = [ m \in Mounters |-> MtIdle ]
    /\ sched = Schedule({}, {}, {})
    /\ last = NoEv
    /\ hd = [ h \in Handles |-> HdIdle ]
    /\ srv = {}
    /\ peer = PeerIdle
    /\ \E n \in 0..MaxArchive : tx = [TxIdle EXCEPT !.size = n, !.tree = DstTree]

TransferNext ==
    \/ \E p \in Transfers, src \in { SrcKey, SrcGone }, tn \in Templates \cup { "ghost" } :
         \E key \in TargetsOf(p) : PullCall(p, src, key, tn)
    \/ \E p \in Transfers : Packing(p)
    \/ \E p \in Transfers : PushTo(p)
    \/ \E p \in Transfers, src \in { SrcKey, SrcGone }, tn \in Templates \cup { "ghost" } :
         \E key \in TargetsOf(p) : PushCall(p, src, key, tn)
    \/ \E p \in Transfers : PushChunk(p)

TransferSpec == TransferInit /\ [][TransferNext]_vars

\* ---------------------------------- ModuleCache.match (module_cache.py)
\* the function members a class of a run may have; those of PrivateNames start
\* with '_'
MethodNames == { "get", "set", "extra", "_p" }
PrivateNames == { "_p" }
\* the ICRM tags and template names of the requests, registered or not
MatchTags == { "ns/names/1", "ns/ghost/1" }
MatchTemplates == { "names", "ghost" }

\* mutant: the private members are compared too
PublicMethods_all(members) == members

\* inspect.getmembers(cls, predicate=inspect.isfunction), names that do not
\* start with '_'
PublicMethods(members) == { name \in members : name \notin PrivateNames }

\* ModuleCache.match: (matched, error)
match(cache, icrm_tag, node_template_name) ==
    IF icrm_tag \notin DOMAIN cache.icrm_modules
    THEN << FALSE, "ICRM tag not found" >>
    ELSE IF node_template_name \notin DOMAIN cache.templates
    THEN << FALSE, "ResourceNodeTemplate not found" >>
    ELSE LET icrm_methods == PublicMethods(cache.icrm_modules[icrm_tag])
             crm_methods == PublicMethods(cache.templates[node_template_name])
             missing_methods == icrm_methods \ crm_methods
         IN  IF missing_methods # {}
             THEN << FALSE, "CRM is missing methods required by ICRM" >>
             ELSE << TRUE, NULL >>

\* a ModuleCache: the registered ICRM classes and the registered templates'
\* CRM classes, each by its function members
ModuleCaches ==
    { [ icrm_modules |-> im, templates |-> tm ] :
        im \in UNION { [ T -> SUBSET { "get", "set", "_p" } ] :
                         T \in { {}, { "ns/names/1" } } },
        tm \in UNION { [ T -> SUBSET MethodNames ] : T \in { {}, { "names" } } } }

Match(icrm_tag, node_template_name) ==
    /\ last' = [Ev("match", NoProc, NullKey, "ok", NULL)
                  EXCEPT !.arg = icrm_tag, !.hook = node_template_name,
                         !.hooked = match(tx, icrm_tag, node_template_name)]
    /\ UNCHANGED << nodes, locks, cl, um, mt, sched, hvars, tx >>

MatchInit ==
    /\ nodes = << >>
    /\ locks = {}
    /\ cl = [ c \in Clients |-> ClNone ]
    /\ um = [ u \in Unmounters |-> UmIdle ]
    /\ mt = [ m \in Mounters |-> MtIdle ]
    /\ sched = Schedule({}, {}, {})
    /\ last = NoEv
    /\ hd = [ h \in Handles |-> HdIdle ]
    /\ srv = {}
    /\ peer = PeerIdle
    /\ tx \in ModuleCaches

MatchNext ==
    \E icrm_tag \in MatchTags, node_template_name \in MatchTemplates :
        Match(icrm_tag, node_template_name)

MatchSpec == MatchInit /\ [][MatchNext]_vars

\* ------------------------- acquire and async_acquire side by side (lock.py)
\* One lock object runs acquire on `locks` and, from the same call on, another
\* runs async_acquire on peer.locks; the other processes' acquisitions and
\* releases reach both tables alike.  tx.a and tx.b are the two runs.
RunIdle == [ pc |-> "idle", out |-> NULL, slept |-> NULL ]

\* the steps of a call: entering it, one pass of the loop, the loop condition
\* failing on an elapsed timeout
AcquireSteps == { "call", "pass", "expire" }

\* acquire, lines 170-180: the check of one pass
sync_can_acquire(tbl, k, t) ==
    IF t = "w"
    THEN Cardinality({ l \in tbl : l.node_key = k }) = 0
    ELSE Cardinality({ l \in tbl : l.node_key = k /\ l.lock_type = "w" }) = 0

\* mutant: the read branch counts every lock on the key
async_can_acquire_exclusive(tbl, k, t) ==
    Cardinality({ l \in tbl : l.node_key = k }) = 0

\* async_acquire, lines 231-241: the check of one pass
async_can_acquire(tbl, k, t) ==
    IF t = "w"
    THEN Cardinality({ l \in tbl : l.node_key = k }) = 0
    ELSE Cardinality({ l \in tbl : l.node_key = k /\ l.lock_type = "w" }) = 0

\* RWLock.acquire, one step of it: the table and the run afterwards
acquire(tbl, c, run, step) ==
    LET k == cl[c].key
        t == cl[c].type
        id == LockIdOf(c, k)
        to(pc, out, slept) == [ pc |-> pc, out |-> out, slept |-> slept ]
    IN  IF step = "call" /\ run.pc = "idle"
        THEN IF has_lock(tbl, id)
             THEN [ locks |-> tbl, run |-> to("idle", "held", NULL) ]
             ELSE [ locks |-> tbl, run |-> to("wait", NULL, NULL) ]
        ELSE IF step = "pass" /\ run.pc = "wait"
        THEN IF sync_can_acquire(tbl, k, t)
             THEN [ locks |-> tbl \cup { LockRow(id, k, t, LevelOf(c)) },
                    run |-> to("idle", "granted", NULL) ]
             ELSE [ locks |-> tbl, run |-> to("wait", "retry", "time.sleep") ]
        ELSE IF step = "expire" /\ run.pc = "wait"
        THEN [ locks |-> tbl, run |-> to("idle", "AttributeError", NULL) ]
        ELSE [ locks |-> tbl, run |-> run ]

\* RWLock.async_acquire, one step of it
async_acquire(tbl, c, run, step) ==
    LET k == cl[c].key
        t == cl[c].type
        id == LockIdOf(c, k)
        to(pc, out, slept) == [ pc |-> pc, out |-> out, slept |-> slept ]
    IN  IF step = "call" /\ run.pc = "idle"
        THEN IF has_lock(tbl, id)
             THEN [ locks |-> tbl, run |-> to("idle", "held", NULL) ]
             ELSE [ locks |-> tbl, run |-> to("wait", NULL, NULL) ]
        ELSE IF step = "pass" /\ run.pc = "wait"
        THEN IF async_can_acquire(tbl, k, t)
             THEN [ locks |-> tbl \cup { LockRow(id, k, t, LevelOf(c)) },
                    run |-> to("idle", "granted", NULL) ]
             ELSE [ locks |-> tbl, run |-> to("wait", "retry", "asyncio.sleep") ]
        ELSE IF step = "expire" /\ run.pc = "wait"
        THEN [ locks |-> tbl, run |-> to("idle", "AttributeError", NULL) ]
        ELSE [ locks |-> tbl, run |-> run ]

\* the same step of both runs
PairStep(c, step) ==
    /\ cl[c].pc = "idle"
    /\ (step = "call") = (tx.a.pc = "idle")
    /\ LET a == acquire(locks, c, tx.a, step)
           b == async_acquire(peer.locks, c, tx.b, step)
       IN  /\ locks' = a.locks
           /\ peer' = [peer EXCEPT !.locks = b.locks]
           /\ tx' = [ a |-> a.run, b |-> b.run ]
           /\ last' = Ev(step, c, cl[c].key, IF a.run.pc = "wait" THEN "run" ELSE "ok",
                         IF a.run.out = "AttributeError" THEN a.run.out ELSE NULL)
    /\ UNCHANGED << nodes, cl, um, mt, sched, hd, srv >>

\* release() of both lock objects between two calls
PairRelease(c) ==
    /\ cl[c].pc = "idle"
    /\ tx.a.pc = "idle"
    /\ locks' = release(locks, LockIdOf(c, cl[c].key))
    /\ peer' = [peer EXCEPT !.locks = release(@, LockIdOf(c, cl[c].key))]
    /\ tx' = [ a |-> RunIdle, b |-> RunIdle ]
    /\ last' = Ev("release", c, cl[c].key, "ok", NULL)
    /\ UNCHANGED << nodes, cl, um, mt, sched, hd, srv >>

\* another process is granted a lock, or releases the one it holds
OtherLocks(c, k, t) ==
    /\ cl[c].pc = "none"
    /\ k \in Keys
    /\ ~has_lock(locks, LockIdOf(c, k))
    /\ can_acquire(locks, k, t)
    /\ locks' = locks \cup { LockRow(LockIdOf(c, k), k, t, LevelOf(c)) }
    /\ peer' = [peer EXCEPT !.locks = @ \cup { LockRow(LockIdOf(c, k), k, t, LevelOf(c)) }]
    /\ last' = NoEv
    /\ UNCHANGED << nodes, cl, um, mt, sched, hd, srv, tx >>

OtherReleases(c, k) ==
    /\ cl[c].pc = "none"
    /\ has_lock(locks, LockIdOf(c, k))
    /\ locks' = release(locks, LockIdOf(c, k))
    /\ peer' = [peer EXCEPT !.locks = release(@, LockIdOf(c, k))]
    /\ last' = NoEv
    /\ UNCHANGED << nodes, cl, um, mt, sched, hd, srv, tx >>

PairInit ==
    /\ nodes = << >>
    /\ locks = {}
    /\ \E k \in BranchKeys, t \in { "r", "w" } :
         cl = [ c \in Clients |->
                  IF c = Cl1 THEN [ pc |-> "idle", key |-> k, type |-> t ]
                  ELSE ClNone ]
    /\ um = [ u \in Unmounters |-> UmIdle ]
    /\ mt = [ m \in Mounters |-> MtIdle ]
    /\ sched = Schedule(Clients, Clients, BranchKeys)
    /\ last = NoEv
    /\ hd = [ h \in Handles |-> HdIdle ]
    /\ srv = {}
    /\ peer = PeerIdle
    /\ tx = [ a |-> RunIdle, b |-> RunIdle ]

PairNext ==
    \/ \E step \in AcquireSteps : PairStep(Cl1, step)
    \/ PairRelease(Cl1)
    \/ \E c \in Clients, k \in BranchKeys, t \in { "r", "w" } : OtherLocks(c, k, t)
    \/ \E c \in Clients, k \in BranchKeys : OtherReleases(c, k)

PairSpec == PairInit /\ [][PairNext]_vars

\* ------------------------------------- the retry loop under fairness
\* Lock objects with timeout None on two keys.  A lock object inside acquire
\* is in its loop: after sleep(retry_interval) it makes its next attempt, so an
\* attempt that stays possible is eventually made.
ContendedKeys == { << "a" >>, << "a", "b" >> }

RetryInit ==
    /\ nodes = << >>
    /\ locks = {}
    /\ cl = [ c \in Clients |-> ClNone ]
    /\ um = [ u \in Unmounters |-> UmIdle ]
    /\ mt = [ m \in Mounters |-> MtIdle ]
    /\ sched = Schedule(Clients, Clients, ContendedKeys)
    /\ last = NoEv
    /\ hd = [ h \in Handles |-> HdIdle ]
    /\ srv = {}
    /\ peer = PeerIdle
    /\ tx = TxIdle

RetryNext ==
    \/ \E c \in Clients, k \in ContendedKeys, t \in { "r", "w" } : NewLock(c, k, t)
    \/ \E c \in Clients : DropLock(c)
    \/ \E c \in Clients : AcquireCall(c)
    \/ \E c \in Clients : AcquireAttempt(c)
    \/ \E c \in Clients : Release(c)

RetrySpec ==
    /\ RetryInit
    /\ [][RetryNext]_vars
    /\ \A c \in Clients : WF_vars(AcquireAttempt(c))

\* ------------------------------- the scene tree store (scene/treeger.py)
\* `nodes` is the scene table, tx.dependency the dependency table (its primary
\* key is node_key, the node depended on), tx.given the dependencies each
\* mounted node was mounted with.
SceneKeys == { << "names" >>, << "hello1" >>, << "hello2" >> }

\* the scenario graph: the dependencies each scenario node declares
ScenarioGraph == [ names |-> {}, hello |-> { "names" } ]

\* INSERT OR IGNORE INTO dependency (node_key, dependent_key)
InsertDependency(tbl, k, d) ==
    IF \E r \in tbl : r.node_key = k THEN tbl
    ELSE tbl \cup { [ node_key |-> k, dependent_key |-> d ] }

RECURSIVE InsertDependencies(_, _, _)
InsertDependencies(tbl, ks, d) ==
    IF ks = {} THEN tbl
    ELSE LET k == CHOOSE x \in ks : TRUE
         IN  InsertDependencies(InsertDependency(tbl, k, d), ks \ {k}, d)

\* SELECT 1 FROM dependency WHERE node_key = ?
_is_node_dependency(tbl, k) == \E r \in tbl : r.node_key = k

\* mount_node, lines 303-368: the scenario node and its dependencies
MountNodeRefusal(name, deps) ==
    IF name \notin DOMAIN ScenarioGraph THEN "scenario node not found"
    ELSE IF Cardinality(deps) # Cardinality(ScenarioGraph[name])
    THEN "dependencies provided"
    ELSE IF \E d \in deps : ~_has_node(nodes, d) THEN "dependency not found"
    ELSE IF ScenarioGraph[name] \ { nodes[d].template_name : d \in deps } # {}
    THEN "missing dependencies"
    ELSE NULL

\* Treeger.mount_node of a resource node at the root
MountNode(k, name, deps) ==
    /\ \E h \in { "ok", "raise" } :
         LET ev(ret, err) == [Ev("mount_node", NoProc, k, ret, err)
                                EXCEPT !.arg = name, !.hook = h]
             refusal == MountNodeRefusal(name, deps)
         IN  IF _has_node(nodes, k)
             THEN /\ nodes' = nodes /\ tx' = tx
                  /\ last' = [ev("ok", NULL) EXCEPT !.hook = "nocall"]
             ELSE IF refusal # NULL
             THEN /\ nodes' = nodes /\ tx' = tx
                  /\ last' = [ev("fail", refusal) EXCEPT !.hook = "nocall"]
             ELSE /\ nodes' = InsertRow(nodes, k, Row(name, NullKey, NULL, NULL))
                  /\ tx' = [ dependency |-> InsertDependencies(tx.dependency, deps, k),
                             given |-> [ x \in DOMAIN tx.given \cup {k} |->
                                           IF x = k THEN deps ELSE tx.given[x] ] ]
                  /\ last' = IF h = "raise" THEN ev("fail", "hook raised")
                             ELSE ev("ok", NULL)
    /\ UNCHANGED << locks, cl, um, mt, sched, hvars >>

\* Treeger.unmount_node of a resource node
UnmountNode(k) ==
    /\ \E h \in UnmountHookResults :
         LET ev(ret, err) == [Ev("unmount_node", NoProc, k, ret, err)
                                EXCEPT !.hook = h]
         IN  IF ~_has_node(nodes, k)
             THEN /\ nodes' = nodes /\ tx' = tx
                  /\ last' = [ev("ok", NULL) EXCEPT !.hook = "nocall"]
             ELSE IF _is_node_dependency(tx.dependency, k)
             THEN /\ nodes' = nodes /\ tx' = tx
                  /\ last' = [ev("fail", "it is depended") EXCEPT !.hook = "nocall"]
             ELSE IF is_node_locked(locks, k)
             THEN /\ nodes' = nodes /\ tx' = tx
                  /\ last' = [ev("fail", "is active") EXCEPT !.hook = "nocall"]
             ELSE /\ nodes' = _delete_node(nodes, k)
                  /\ tx' = [ dependency |-> { r \in tx.dependency : r.dependent_key # k },
                             given |-> [ x \in DOMAIN tx.given \ {k} |-> tx.given[x] ] ]
                  /\ last' = IF h = "raise" THEN ev("fail", "hook raised")
                             ELSE ev("ok", NULL)
    /\ UNCHANGED << locks, cl, um, mt, sched, hvars >>

SceneInit ==
    /\ nodes = << >>
    /\ locks = {}
    /\ cl = [ c \in Clients |-> ClNone ]
    /\ um = [ u \in Unmounters |-> UmIdle ]
    /\ mt = [ m \in Mounters |-> MtIdle ]
    /\ sched = Schedule({}, {}, SceneKeys)
    /\ last = NoEv
    /\ hd = [ h \in Handles |-> HdIdle ]
    /\ srv = {}
    /\ peer = PeerIdle
    /\ tx = [ dependency |-> {}, given |-> << >> ]

SceneNext ==
    \/ \E k \in SceneKeys, name \in { "names", "hello", "ghost" } :
         \E deps \in { S \in SUBSET (SceneKeys \ {k}) : Cardinality(S) <= 1 } :
           MountNode(k, name, deps)
    \/ \E k \in SceneKeys : UnmountNode(k)

SceneSpec == SceneInit /\ [][SceneNext]_vars

\* ------------------- pack-if-absent, statement by statement (endpoints/node.py)
\* The handlers are plain functions, which the server runs on worker threads:
\* the statements of two requests interleave.  tx.file[c] is the archive of
\* SrcKey in cache c, tx.packs[c] the calls of the pack hook for it, tx.r[p]
\* request p.
Caches == { "pull_cache", "push_cache" }

\* the cache a request works on: packing the pull cache, push the push cache
CacheOf(op) == IF op = "packing" THEN "pull_cache" ELSE "push_cache"

\* `with threading.Lock():` the lock object the statement constructs
MutexOf(p) == << "threading.Lock", p >>

InMutex(p) == tx.r[p].pc \in { "in", "pack", "writing", "stat", "lock" }

ReqNew == [ pc |-> "new", op |-> "none", partial |-> FALSE ]

\* the with statement: acquire the lock object just constructed
PackEnter(p, op) ==
    /\ tx.r[p].pc = "new"
    /\ \A q \in Transfers \ {p} : InMutex(q) => MutexOf(q) # MutexOf(p)
    /\ tx' = [tx EXCEPT !.r[p] = [ pc |-> "in", op |-> op, partial |-> FALSE ]]
    /\ last' = NoEv
    /\ UNCHANGED << nodes, locks, cl, um, mt, sched, hvars >>

\* if not tar_path.exists()
PackExists(p) ==
    /\ tx.r[p].pc = "in"
    /\ LET c == CacheOf(tx.r[p].op)
       IN  tx' = [tx EXCEPT !.r[p].pc =
                     IF ~tx.file[c].exists THEN "pack"
                     ELSE IF tx.r[p].op = "packing" THEN "stat" ELSE "lock"]
    /\ last' = NoEv
    /\ UNCHANGED << nodes, locks, cl, um, mt, sched, hvars >>

\* template.pack(node_key, str(tar_path)): the hook opens the file for writing
PackBegin(p) ==
    /\ tx.r[p].pc = "pack"
    /\ LET c == CacheOf(tx.r[p].op)
       IN  tx' = [tx EXCEPT !.r[p].pc = "writing",
                            !.packs[c] = @ + 1,
                            !.file[c] = [ exists |-> TRUE, writers |-> @.writers \cup {p} ]]
    /\ last' = Ev("pack", p, SrcKey, "run", NULL)
    /\ UNCHANGED << nodes, locks, cl, um, mt, sched, hvars >>

\* the hook closes the file and returns its size
PackEnd(p) ==
    /\ tx.r[p].pc = "writing"
    /\ LET c == CacheOf(tx.r[p].op)
       IN  tx' = [tx EXCEPT !.r[p].pc = "lock",
                            !.file[c].writers = @ \ {p}]
    /\ last' = Ev("pack", p, SrcKey, "ok", NULL)
    /\ UNCHANGED << nodes, locks, cl, um, mt, sched, hvars >>

\* file_size = tar_path.stat().st_size
PackStat(p) ==
    /\ tx.r[p].pc = "stat"
    /\ LET c == CacheOf(tx.r[p].op)
       IN  tx' = [tx EXCEPT !.r[p].pc = "lock",
                            !.r[p].partial = tx.file[c].writers \ {p} # {}]
    /\ last' = Ev("stat", p, SrcKey, "ok", NULL)
    /\ UNCHANGED << nodes, locks, cl, um, mt, sched, hvars >>

\* the two lock_node calls, the end of the with statement
PackLock(p) ==
    /\ tx.r[p].pc = "lock"
    /\ can_acquire(locks, SrcKey, "r")
    /\ can_acquire(locks, TarKey(SrcKey), "r")
    /\ locks' = locks \cup TarLocks(p, SrcKey)
    /\ tx' = [tx EXCEPT !.r[p].pc = "stream"]
    /\ last' = Ev(tx.r[p].op, p, SrcKey, "ok", NULL)
    /\ UNCHANGED << nodes, cl, um, mt, sched, hvars >>

\* the first read of the archive: push_to's for a pull, the push loop's
PackStream(p) ==
    /\ tx.r[p].pc = "stream"
    /\ LET c == CacheOf(tx.r[p].op)
       IN  tx' = [tx EXCEPT !.r[p].pc = "done",
                            !.r[p].partial = @ \/ tx.file[c].writers # {}]
    /\ last' = Ev("read", p, SrcKey, "ok", NULL)
    /\ UNCHANGED << nodes, locks, cl, um, mt, sched, hvars >>

PackInit ==
    /\ nodes = SrcTree
    /\ locks = {}
    /\ cl = [ c \in Clients |-> ClNone ]
    /\ um = [ u \in Unmounters |-> UmIdle ]
    /\ mt = [ m \in Mounters |-> MtIdle ]
    /\ sched = Schedule({}, {}, {})
    /\ last = NoEv
    /\ hd = [ h \in Handles |-> HdIdle ]
    /\ srv = {}
    /\ peer = PeerIdle
    /\ tx = [ file |-> [ c \in Caches |-> [ exists |-> FALSE, writers |-> {} ] ],
              packs |-> [ c \in Caches |-> 0 ],
              r |-> [ p \in Transfers |-> ReqNew ] ]

PackNext ==
    \/ \E p \in Transfers, op \in { "packing", "push" } : PackEnter(p, op)
    \/ \E p \in Transfers : PackExists(p)
    \/ \E p \in Transfers : PackBegin(p)
    \/ \E p \in Transfers : PackEnd(p)
    \/ \E p \in Transfers : PackStat(p)
    \/ \E p \in Transfers : PackLock(p)
    \/ \E p \in Transfers : PackStream(p)

PackSpec == PackInit /\ [][PackNext]_vars

\* ------------------------------- the timeout of the retry loop (lock.py)
\* Time in units of retry_interval.  tx is one call of acquire or
\* async_acquire by the lock object of Cl1: its timeout, the time since
\* start_time, the passes of the loop body so far, its outcome.
MaxElapsed == 3

\* a timeout argument: None, or a number of retry intervals
NoTimeout == [ none |-> TRUE, secs |-> 0 ]

Secs(n) == [ none |-> FALSE, secs |-> n ]

TimeoutArgs == { NoTimeout } \cup { Secs(n) : n \in -1..2 }

\* RWLock.__init__, line 29
InitTimeout(timeout) == IF ~timeout.none /\ timeout.secs >= 0 THEN timeout ELSE NoTimeout

\* the while condition, lines 162 and 223
LoopCondition(timeout, elapsed) == timeout.none \/ elapsed < timeout.secs

CallIdle == [ pc |-> "none", fn |-> "none", timeout |-> NoTimeout, elapsed |-> 0,
              passes |-> 0, out |-> NULL ]

\* RWLock(node_key, mode, timeout).acquire() or .async_acquire(), up to the
\* loop: `if self.acquired(): return`, start_time = time.monotonic()
TimedCall(c, fn, timeout) ==
    /\ tx.pc = "none"
    /\ tx' = IF has_lock(locks, LockIdOf(c, cl[c].key))
             THEN [CallIdle EXCEPT !.fn = fn, !.out = "held"]
             ELSE [CallIdle EXCEPT !.pc = "loop", !.fn = fn, !.timeout = InitTimeout(timeout)]
    /\ last' = NoEv
    /\ UNCHANGED << nodes, locks, cl, um, mt, sched, hvars >>

\* the loop test and, where it passes, one pass of the body: the check and
\* the INSERT in one transaction, or rollback and sleep(retry_interval);
\* where it fails, the raise statement after the loop
TimedPass(c) ==
    /\ tx.pc = "loop"
    /\ LET k == cl[c].key
           t == cl[c].type
       IN  IF ~LoopCondition(tx.timeout, tx.elapsed)
           THEN /\ locks' = locks
                /\ tx' = [tx EXCEPT !.pc = "none", !.out = "AttributeError"]
                /\ last' = Ev(tx.fn, c, k, "fail", "AttributeError")
           ELSE IF can_acquire(locks, k, t)
           THEN /\ locks' = locks \cup { LockRow(LockIdOf(c, k), k, t, LevelOf(c)) }
                /\ tx' = [tx EXCEPT !.pc = "none", !.out = "granted", !.passes = @ + 1]
                /\ last' = Ev(tx.fn, c, k, "ok", NULL)
           ELSE /\ locks' = locks
                /\ tx' = [tx EXCEPT !.passes = IF @ < MaxElapsed THEN @ + 1 ELSE @,
                                    !.elapsed = IF @ < MaxElapsed THEN @ + 1 ELSE @]
                /\ last' = Ev("attempt", c, k, "run", NULL)
    /\ UNCHANGED << nodes, cl, um, mt, sched, hvars >>

\* release() between two calls
TimedRelease(c) ==
    /\ tx.pc = "none"
    /\ tx.out # NULL
    /\ locks' = release(locks, LockIdOf(c, cl[c].key))
    /\ tx' = CallIdle
    /\ last' = Ev("release", c, cl[c].key, "ok", NULL)
    /\ UNCHANGED << nodes, cl, um, mt, sched, hvars >>

\* another process is granted a lock, or releases the one it holds
TimedOtherLocks(c, k, t) ==
    /\ cl[c].pc = "none"
    /\ ~has_lock(locks, LockIdOf(c, k))
    /\ can_acquire(locks, k, t)
    /\ locks' = locks \cup { LockRow(LockIdOf(c, k), k, t, LevelOf(c)) }
    /\ last' = NoEv
    /\ UNCHANGED << nodes, cl, um, mt, sched, hvars, tx >>

TimedOtherReleases(c, k) ==
    /\ cl[c].pc = "none"
    /\ has_lock(locks, LockIdOf(c, k))
    /\ locks' = release(locks, LockIdOf(c, k))
    /\ last' = NoEv
    /\ UNCHANGED << nodes, cl, um, mt, sched, hvars, tx >>

TimeoutInit ==
    /\ nodes = << >>
    /\ locks = {}
    /\ \E t \in { "r", "w" } :
         cl = [ c \in Clients |->
                  IF c = Cl1 THEN [ pc |-> "idle", key |-> KeyA, type |-> t ]
                  ELSE ClNone ]
    /\ um = [ u \in Unmounters |-> UmIdle ]
    /\ mt = [ m \in Mounters |-> MtIdle ]
    /\ sched = Schedule(Clients, Clients, { KeyA, KeyB })
    /\ last = NoEv
    /\ hd = [ h \in Handles |-> HdIdle ]
    /\ srv = {}
    /\ peer = PeerIdle
    /\ tx = CallIdle

TimeoutNext ==
    \/ \E fn \in { "acquire", "async_acquire" }, timeout \in TimeoutArgs :
          TimedCall(Cl1, fn, timeout)
    \/ TimedPass(Cl1)
    \/ TimedRelease(Cl1)
    \/ \E c \in Clients, k \in { KeyA, KeyB }, t \in { "r", "w" } : TimedOtherLocks(c, k, t)
    \/ \E c \in Clients, k \in { KeyA, KeyB } : TimedOtherReleases(c, k)

TimeoutSpec == TimeoutInit /\ [][TimeoutNext]_vars

\* ------------------- lock ids passed with any node key (node/treeger.py)
\* Callers hold links on 'a.b' and on the peer's 'n' and pass the lock ids they
\* know with any node key.  tx is the request last made: its key and lock id.
IdKeys == { KeyA, KeyB, RemoteRef(PeerN), RemoteRef(PeerX) }

LinkableKeys == { KeyB, RemoteRef(PeerN) }

\* every lock id in a table, and one that is in none
AllIds == { l.lock_id : l \in locks \cup peer.locks } \cup { BogusId }

NoRequest == [ key |-> NullKey, id |-> BogusId ]

\* GET <url>/noodle/lock/?lock_id=: RWLock.get_lock_info on the peer; the
\* HTTPException with status 404 is raised inside the try block, whose
\* `except Exception` turns it into status 500
LockInfoStatus(p, id) == IF has_lock(p.locks, id) THEN 200 ELSE 500

\* access and unlink, the check of the lock: NULL where it passes.  A local
\* key asks has_lock; for a remote reference 404 clears does_lock_exist, any
\* other status but 200 raises, and after a 200 answer the flag is set to
\* True below the comparison of the node keys
LockCheck(k, id) ==
    IF IsRemoteRef(k)
    THEN IF LockInfoStatus(peer, id) = 404 THEN "Lock not found"
         ELSE IF LockInfoStatus(peer, id) # 200 THEN "RuntimeError"
         ELSE LET lock_info == CHOOSE l \in peer.locks : l.lock_id = id
                  does_lock_exist == << lock_info.node_key = RemoteKeyOf(k), TRUE >>
              IN  IF does_lock_exist[2] THEN NULL ELSE "Lock not found"
    ELSE IF has_lock(locks, id) THEN NULL ELSE "Lock not found"

\* connect with a lock_id, lines 339-362: NULL where the lock passes
ConnectCheck(k, id, t) ==
    IF IsRemoteRef(k)
    THEN IF LockInfoStatus(peer, id) = 404 THEN "Lock not found"
         ELSE IF LockInfoStatus(peer, id) # 200 THEN "RuntimeError"
         ELSE LET lock_info == CHOOSE l \in peer.locks : l.lock_id = id
              IN  IF lock_info.node_key # RemoteKeyOf(k) THEN "does not belong to node"
                  ELSE IF t = "w" /\ lock_info.lock_type = "r" THEN "no write permission"
                  ELSE NULL
    ELSE ScopeRefusal(locks, k, id, t)

\* link: _get_node at level p, the lock, the server, and the lock id returned
LinkDone(h, k, t) ==
    /\ hd[h].pc = "idle"
    /\ IF IsRemoteRef(k)
       THEN LET pk == RemoteKeyOf(k)
            IN  /\ can_acquire(peer.locks, pk, t)
                /\ peer' = [ locks |-> peer.locks \cup { LockRow(LockIdOf(h, pk), pk, t, "p") },
                             srv |-> peer.srv \cup { ServerAddress(pk, LockIdOf(h, pk)) } ]
                /\ UNCHANGED << locks, srv >>
       ELSE /\ can_acquire(locks, k, t)
            /\ locks' = locks \cup { LockRow(LockIdOf(h, k), k, t, "p") }
            /\ srv' = srv \cup { ServerAddress(k, LockIdOf(h, k)) }
            /\ peer' = peer
    /\ hd' = [hd EXCEPT ![h] =
                [HdIdle EXCEPT !.pc = "linked", !.op = "link", !.key = k, !.level = "p",
                               !.type = t, !.kind = GetNodeKind(nodes, k),
                               !.crm = "client", !.rid = IsRemoteRef(k)]]
    /\ tx' = NoRequest
    /\ last' = [Ev("link", h, k, "ok", NULL) EXCEPT !.arg = "lock_id"]
    /\ UNCHANGED << nodes, cl, um, mt, sched >>

\* Treeger.access(icrm, k, id)
AccessAt(h, k, id) ==
    /\ tx' = [ key |-> k, id |-> id ]
    /\ last' = IF LockCheck(k, id) = NULL
               THEN [Ev("access", h, k, "ok", NULL) EXCEPT !.arg = IdArg(id)]
               ELSE [Ev("access", h, k, "fail", LockCheck(k, id)) EXCEPT !.arg = IdArg(id)]
    /\ UNCHANGED << nodes, locks, cl, um, mt, sched, hvars >>

\* connect(icrm, k, 'p' + t, lock_id=id): the with statement and its body
ScopeAt(h, k, id, t) ==
    /\ tx' = [ key |-> k, id |-> id ]
    /\ LET refusal == ConnectCheck(k, id, t)
       IN  last' = IF refusal # NULL
                   THEN [Ev("scope", h, k, "fail", refusal) EXCEPT !.arg = IdArg(id)]
                   ELSE [Ev("scope", h, k, "ok", NULL) EXCEPT !.arg = IdArg(id)]
    /\ UNCHANGED << nodes, locks, cl, um, mt, sched, hvars >>

\* Treeger.unlink(k, id)
UnlinkAt(h, k, id) ==
    /\ tx' = [ key |-> k, id |-> id ]
    /\ IF LockCheck(k, id) # NULL
       THEN /\ last' = [Ev("unlink", h, k, "fail", LockCheck(k, id)) EXCEPT !.arg = IdArg(id)]
            /\ UNCHANGED << locks, srv, peer >>
       ELSE /\ last' = [Ev("unlink", h, k, "ok", NULL) EXCEPT !.arg = IdArg(id)]
            /\ IF IsRemoteRef(k)
               THEN /\ peer' = Deactivate(peer, RemoteKeyOf(k), id)
                    /\ UNCHANGED << locks, srv >>
               ELSE /\ srv' = Shutdown(srv, ServerAddress(k, id))
                    /\ locks' = remove_lock(locks, id)
                    /\ peer' = peer
    /\ hd' = [ g \in Handles |->
                 IF hd[g].pc = "linked"
                    /\ ~has_lock(locks' \cup peer'.locks,
                                 LockIdOf(g, IF hd[g].rid THEN RemoteKeyOf(hd[g].key) ELSE hd[g].key))
                 THEN HdIdle ELSE hd[g] ]
    /\ UNCHANGED << nodes, cl, um, mt, sched >>

\* RWLock.release_all_process_servers: a shutdown to the address of every
\* lock row of access level p
release_all_process_servers(tbl, servers) ==
    servers \ { ServerAddress(l.node_key, l.lock_id) : l \in { r \in tbl : r.access_level = "p" } }

\* RWLock.clear_all: DELETE FROM locks
clear_all(tbl) == {}

\* NOODLE_TERMINATE of the local process
NoodleTerminate ==
    /\ locks # {}
    /\ srv' = release_all_process_servers(locks, srv)
    /\ locks' = clear_all(locks)
    /\ hd' = [ g \in Handles |-> IF hd[g].pc = "linked" /\ ~hd[g].rid THEN HdIdle ELSE hd[g] ]
    /\ tx' = NoRequest
    /\ last' = Ev("NOODLE_TERMINATE", NoProc, NullKey, "ok", NULL)
    /\ peer' = peer
    /\ UNCHANGED << nodes, cl, um, mt, sched >>

IdInit ==
    /\ nodes = HandleTree
    /\ locks = {}
    /\ cl = [ c \in Clients |-> ClNone ]
    /\ um = [ u \in Unmounters |-> UmIdle ]
    /\ mt = [ m \in Mounters |-> MtIdle ]
    /\ sched = Schedule(Handles, Handles, IdKeys)
    /\ last = NoEv
    /\ hd = [ h \in Handles |-> HdIdle ]
    /\ srv = {}
    /\ peer = PeerIdle
    /\ tx = NoRequest

IdNext ==
    \/ \E h \in Handles, k \in LinkableKeys, t \in { "r", "w" } : LinkDone(h, k, t)
    \/ \E h \in Handles, k \in IdKeys : \E id \in AllIds : AccessAt(h, k, id)
    \/ \E h \in Handles, k \in IdKeys, t \in { "r", "w" } : \E id \in AllIds : ScopeAt(h, k, id, t)
    \/ \E h \in Handles, k \in IdKeys : \E id \in AllIds : UnlinkAt(h, k, id)
    \/ NoodleTerminate

IdSpec == IdInit /\ [][IdNext]_vars

\* ----------------------------- unmount against connect and link (treeger.py)
\* One unmount call and the handle users' connect and link calls on the tree
\* of the handle runs, interleaved transaction by transaction.
RaceKeys == { KeyA, KeyB }

RaceInit ==
    /\ nodes = HandleTree
    /\ locks = {}
    /\ cl = [ c \in Clients |-> ClNone ]
    /\ um = [ u \in Unmounters |-> UmIdle ]
    /\ mt = [ m \in Mounters |-> MtIdle ]
    /\ sched = Schedule({ Um1 }, { Um1 }, RaceKeys)
    /\ last = NoEv
    /\ hd = [ h \in Handles |-> HdIdle ]
    /\ srv = {}
    /\ peer = PeerIdle
    /\ tx = TxIdle

RaceNext ==
    \/ \E k \in RaceKeys : UnmountCall(Um1, k)
    \/ UnmountLoad(Um1)
    \/ UnmountCheck(Um1)
    \/ UnmountPreLock(Um1)
    \/ UnmountChildren(Um1)
    \/ UnmountDelete(Um1)
    \/ UnmountUnlock(Um1)
    \/ UnmountFail(Um1)
    \/ \E h \in Handles, k \in RaceKeys, lv \in { "l", "p" }, t \in { "r", "w" } :
         GetNode(h, "connect", k, lv, t)
    \/ \E h \in Handles, k \in RaceKeys, t \in { "r", "w" } :
         GetNode(h, "link", k, "p", t)
    \/ \E h \in Handles : HAcquire(h)
    \/ \E h \in Handles : HAcquireTimeout(h)
    \/ \E h \in Handles : HActivate(h)
    \/ \E h \in Handles, exc \in BOOLEAN : ConnectBody(h, exc)
    \/ \E h \in Handles : HTerminate(h)
    \/ \E h \in Handles : HRelease(h)

RaceSpec == RaceInit /\ [][RaceNext]_vars

\* ------------------------ unmount among lock holders, with its progress
\* One unmount call on the tree of the handle runs while clients take and
\* release locks.  The thread inside unmount keeps running: each of its steps
\* is weakly fair.  A client releases its lock when it chooses to.
WaitInit ==
    /\ nodes = HandleTree
    /\ locks = {}
    /\ cl = [ c \in Clients |-> ClNone ]
    /\ um = [ u \in Unmounters |-> UmIdle ]
    /\ mt = [ m \in Mounters |-> MtIdle ]
    /\ sched = Schedule(Clients \cup { Um1 }, Clients \cup { Um1 }, RaceKeys)
    /\ last = NoEv
    /\ hd = [ h \in Handles |-> HdIdle ]
    /\ srv = {}
    /\ peer = PeerIdle
    /\ tx = TxIdle

UnmountStep(u) ==
    \/ UnmountLoad(u)
    \/ UnmountCheck(u)
    \/ UnmountPreLock(u)
    \/ UnmountChildren(u)
    \/ UnmountDelete(u)
    \/ UnmountUnlock(u)
    \/ UnmountFail(u)

WaitNext ==
    \/ \E c \in Clients, k \in RaceKeys, t \in { "r", "w" } : NewLock(c, k, t)
    \/ \E c \in Clients : DropLock(c)
    \/ \E c \in Clients : AcquireCall(c)
    \/ \E c \in Clients : AcquireAttempt(c)
    \/ \E c \in Clients : AcquireTimeout(c)
    \/ \E c \in Clients : Release(c)
    \/ \E k \in RaceKeys : UnmountCall(Um1, k)
    \/ UnmountStep(Um1)

WaitSpec ==
    /\ WaitInit
    /\ [][WaitNext]_vars
    /\ WF_vars(UnmountStep(Um1))

\* ------------------------------------------------------------------ claims
Subtree(tbl, k) == DeletedBy(tbl, k)

Count(seq, x) == Cardinality({ i \in 1..Len(seq) : seq[i] = x })

OwnedBy(tbl, p) == { l \in tbl : l.lock_id[1] = p }

\* C1: whenever a write lock row exists for a node key, it is the only lock
\* row for that key, under every interleaving of the lock operations.
C1_WriteLockExclusive ==
    \A l \in locks : l.lock_type = "w" => LocksOn(locks, l.node_key) = { l }

\* a writer holds the key and another acquirer's attempt was just refused
C1_Witness ==
    /\ last.op = "attempt"
    /\ last.ret = "run"
    /\ \E l \in LocksOn(locks, last.key) : l.lock_type = "w"

C3_ReleaseIdempotent ==
    [][ last'.op = "release" =>
          LET id == LockIdOf(last'.proc, last'.key)
          IN  /\ last'.ret = "ok"
              /\ ~has_lock(locks', id)
              /\ locks' = { l \in locks : l.lock_id # id }
              /\ ~has_lock(locks, id) => locks' = locks
      ]_vars

\* a release of an id that is not in the table, while other locks are
C3_Witness ==
    /\ last.op = "release"
    /\ last.pre = {}
    /\ LocksOn(locks, last.key) # {}

\* a mount call by m starts in this step (it returns at once or goes on)
MountStarts(m) ==
    /\ mt[m].pc = "idle"
    /\ \/ last'.op = "mount" /\ last'.proc = m
       \/ mt'[m].pc = "insert" /\ mt'[m].op = "mount"

MountKey(m) == IF last'.op = "mount" THEN last'.key ELSE mt'[m].key

\* C4: a mount call on a key that has a record returns success at once, for
\* every template name and mount parameters, calls no hook and changes no
\* record.
C4_MountIdempotent ==
    [][ \A m \in Mounters :
          MountStarts(m) /\ MountKey(m) \in DOMAIN nodes =>
             /\ last'.op = "mount"
             /\ last'.ret = "ok"
             /\ last'.hook = "nocall"
             /\ mt'[m].pc = "idle"
             /\ nodes' = nodes
      ]_vars

\* mount with a template returned success on a key that holds a resource set
C4_Witness ==
    /\ last.op = "mount"
    /\ last.ret = "ok"
    /\ last.arg = "names"
    /\ last.hook = "nocall"
    /\ last.key \in DOMAIN nodes
    /\ nodes[last.key].template_name = NULL

\* C5: every record with a non-null parent_key has a record under that key.
C5_ParentExists ==
    \A k \in DOMAIN nodes :
        nodes[k].parent_key # NullKey => nodes[k].parent_key \in DOMAIN nodes

\* an unmount has just removed a record together with a child by cascade
C5_Witness ==
    /\ last.op = "unmount"
    /\ last.ret = "ok"
    /\ \E k \in last.removed : k # last.key
    /\ nodes # << >>

\* C6: no record is deleted while a client holds a lock on its key, and (in
\* a run without overlapping calls) unmount(k) fails with "is locked" whenever
\* a record of k's subtree is locked.
C6_UnmountForbiddenWhileLocked ==
    [][ /\ \A k \in DOMAIN nodes \ DOMAIN nodes' :
             LocksOn(ClientLocks(locks), k) = {}
        /\ (serial /\ last'.op = "unmount" /\ um[last'.proc].pc # "idle") =>
             ((\E k \in Subtree(um[last'.proc].snap, last'.key) :
                  LocksOn(ClientLocks(locks), k) # {})
              => last'.ret = "fail" /\ last'.err = "is locked")
      ]_vars

\* C7: in a run without overlapping calls, when unmount(k) returns success no
\* record is stored under k.
C7_UnmountSuccessRemoves ==
    (serial /\ last.op = "unmount" /\ last.ret = "ok") => last.key \notin DOMAIN nodes

\* C8: in a run without overlapping calls, when unmount returns failure the
\* records are those before the call and none of its locks is in the table.
C8_FailedUnmountNoOp ==
    [][ (serial /\ last'.op = "unmount" /\ last'.ret = "fail") =>
          /\ nodes' = um[last'.proc].snap
          /\ OwnedBy(locks', last'.proc) = {}
      ]_vars

\* C9: in a run without overlapping calls, a successful unmount(k) removes
\* the records of k's whole subtree and calls the unmount hook exactly once
\* for each non-proxy record with a template in it, never for the others.
C9_CascadeUnmount ==
    [][ (serial /\ last'.op = "unmount" /\ last'.ret = "ok" /\ um[last'.proc].pc # "idle") =>
          LET snap == um[last'.proc].snap
              sub == Subtree(snap, last'.key)
          IN  /\ DOMAIN nodes' = DOMAIN snap \ sub
              /\ \A k \in sub :
                   Count(last'.hooked, k) =
                     IF ~IsProxy(snap[k]) /\ snap[k].template_name # NULL THEN 1 ELSE 0
      ]_vars

\* C10: a mount that fails inserts nothing, and a mount fails when the parent
\* key is non-empty and missing, when the template is unknown, when the mount
\* hook raises and when it returns launch params that are no dictionary.
C10_FailedMountInsertsNothing ==
    [][ last'.op = "mount" =>
          LET m == last'.proc
              k == last'.key
              parent_key == ParentKeyOf(k)
          IN  /\ last'.ret = "fail" => nodes' = nodes /\ last'.err # NULL
              /\ (mt[m].pc = "idle" /\ k \notin DOMAIN nodes
                    /\ parent_key # EmptyKey /\ parent_key \notin DOMAIN nodes)
                 => last'.ret = "fail"
              /\ (mt[m].pc = "idle" /\ k \notin DOMAIN nodes
                    /\ last'.arg \notin Templates \cup { NULL })
                 => last'.ret = "fail"
              /\ last'.hook \in { "raise", "nondict" } => last'.ret = "fail"
              /\ last'.ret = "ok" => k \in DOMAIN nodes'
      ]_vars

\* a mount failed on its hook's result while the tree holds records
C10_Witness ==
    /\ last.op = "mount"
    /\ last.ret = "fail"
    /\ last.hook = "nondict"
    /\ nodes # << >>

\* a key of this tree whose record has no template: a resource set
IsSetKey(k) == k \in DOMAIN nodes /\ nodes[k].template_name = NULL

\* a reference to a record of the peer that has no template
IsPeerSetRef(k) ==
    IsRemoteRef(k) /\ RemoteKeyOf(k) \in DOMAIN PeerTree
        /\ PeerTree[RemoteKeyOf(k)].template_name = NULL

\* C11: a resource set cannot be activated. connect and link on a key whose
\* record has no template fail with "is a resource set node" and construct no
\* handle, and the peer's activate request on such a key answers with an
\* error; in each case no lock row is added or removed, here or on the peer,
\* and no CRM or server comes into being.
C11_ResourceSetRejected ==
    [][ /\ \A h \in Handles :
             /\ (hd[h].pc = "idle" /\ hd'[h].pc # "idle") => ~IsSetKey(hd'[h].key)
             /\ (hd[h].pc = "handshake" /\ IsPeerSetRef(hd[h].key) /\ hd'[h] # hd[h])
                => /\ hd'[h] = HdIdle
                   /\ last'.ret = "fail"
                   /\ last'.err = "is a resource set"
                   /\ locks' = locks /\ peer' = peer /\ srv' = srv
        /\ (last'.op \in { "connect", "link" } /\ last'.arg = NULL /\ IsSetKey(last'.key))
           => /\ last'.ret = "fail"
              /\ last'.err = "is a resource set node"
              /\ locks' = locks /\ peer' = peer /\ srv' = srv /\ hd' = hd
      ]_vars

\* link on the resource set 'a' was refused while a lock on 'a.b' is held
C11_Witness ==
    /\ last.op = "link"
    /\ last.key = KeyA
    /\ last.ret = "fail"
    /\ last.err = "is a resource set node"
    /\ locks # {}

\* C12: an acquire (acquire and async_acquire run the same loop) that gives up
\* after a finite timeout while an incompatible lock is held ends with
\* TimeoutError and with no other error.
C12_TimeoutIsTimeoutError ==
    (/\ last.op = "acquire"
     /\ last.ret = "fail"
     /\ ~can_acquire(locks, last.key, cl[last.proc].type))
    => last.err = "TimeoutError"

\* the rows of a table that carry one lock id
RowsOf(tbl, id) == { l \in tbl : l.lock_id = id }

\* C13: acquisition is all-or-nothing. An acquire that fails leaves no row
\* with its lock id and changes no row; one that succeeds leaves exactly one
\* row with its lock id, and that row carries the requested node_key,
\* lock_type and access_level.
C13_AcquireAllOrNothing ==
    [][ LET c == last'.proc
            id == LockIdOf(c, last'.key)
        IN  /\ (last'.op = "acquire" /\ last'.ret = "fail")
               => RowsOf(locks', id) = {} /\ locks' = locks
            /\ (last'.op \in { "acquire", "attempt" } /\ last'.ret = "ok")
               => /\ Cardinality(RowsOf(locks', id)) = 1
                  /\ \A l \in RowsOf(locks', id) :
                       /\ l.node_key = cl[c].key
                       /\ l.lock_type = cl[c].type
                       /\ l.access_level = LevelOf(c)
                  /\ locks' \ RowsOf(locks', id) = locks \ RowsOf(locks, id)
      ]_vars

\* two clients hold read locks on one key: the second acquire was granted
\* beside a lock that was already in the table
C13_Witness ==
    /\ last.op = "attempt"
    /\ last.ret = "ok"
    /\ Cardinality(LocksOn(locks, last.key)) = 2

\* the lock a handle's activation acquired: in this table for a local key, in
\* the peer's table for a remote reference
ActivationLockHeld(h, k) ==
    IF IsRemoteRef(k)
    THEN has_lock(peer.locks, LockIdOf(h, RemoteKeyOf(k)))
    ELSE has_lock(locks, LockIdOf(h, k))

\* C14: when the activation of a process-level handle fails because the CRM
\* server does not answer ping in time, through connect or link or in the
\* peer's activate request, the lock the activation acquired is no longer in
\* the lock table once the failure is reported.
C14_ActivationTimeoutRolledBack ==
    (/\ last.ret = "fail"
     /\ last.err = "TimeoutError"
     /\ last.arg \in { "activate", "http activate" })
    => ~ActivationLockHeld(last.proc, last.key)

\* C15: terminate of an activated local handle. The CRM's terminate hook
\* (level l), or the client termination and the shutdown of the server
\* (level p), happens while the lock is still in the table; the release comes
\* after it and removes the handle's row only, and once terminate has finished
\* no row carries the handle's lock id.
C15_TerminateThenRelease ==
    [][ \A h \in Handles :
          LET id == LockIdOf(h, hd[h].key)
              addr == ServerAddress(hd[h].key, id)
          IN  /\ (hd[h].pc = "term" /\ hd[h].kind = "local" /\ hd'[h].pc = "release")
                 => /\ locks' = locks
                    /\ has_lock(locks, id)
                    /\ hd'[h].crm = "terminated"
                    /\ hd[h].level = "p" => addr \in srv /\ addr \notin srv'
              /\ (hd[h].pc = "release" /\ hd'[h] # hd[h])
                 => /\ hd[h].crm = "terminated"
                    /\ hd[h].level = "p" => addr \notin srv
                    /\ has_lock(locks, id)
                    /\ locks' = locks \ RowsOf(locks, id)
                    /\ ~has_lock(locks', id)
                    /\ hd'[h] = HdIdle
                    /\ last'.op = "connect" /\ last'.arg = "exit"
      ]_vars

\* a process-level handle on 'a.b' finished terminate, its server was shut
\* down, and the other handle's read lock on 'a.b' is still in the table
C15_Witness ==
    /\ last.op = "connect"
    /\ last.arg = "exit"
    /\ last.key = KeyB
    /\ last.ret = "ok"
    /\ last.hook = "shutdown"
    /\ ~has_lock(locks, LockIdOf(last.proc, KeyB))
    /\ Cardinality(LocksOn(locks, KeyB)) = 1

\* C16: a connect without lock_id releases the lock it acquired on every exit
\* path: whether the with-body returns or raises, once connect on a local
\* resource has exited, the lock table holds no row with the lock id of that
\* connection.
C16_ConnectAlwaysReleases ==
    (/\ last.op = "connect"
     /\ last.arg = "exit"
     /\ GetNodeKind(nodes, last.key) = "local")
    => ~has_lock(locks, LockIdOf(last.proc, last.key))

\* C17: a connection to a proxy record holds a local lock on the proxy's own
\* key and, through the activate handshake, a lock on the peer; it drives the
\* peer's CRM, no CRM is instantiated or spawned here from the proxy record;
\* when the connection has exited, the local lock is released.
C17_ProxyHandleLocksBothSides ==
    /\ \A h \in Handles :
         (hd[h].kind = "proxy" /\ hd[h].pc = "body")
         => /\ has_lock(locks, LockIdOf(h, hd[h].key))
            /\ \E l \in peer.locks : l.lock_id[1] = h
            /\ hd[h].crm # "local"
            /\ ServerAddress(hd[h].key, LockIdOf(h, hd[h].key)) \notin srv
    /\ (last.op = "connect" /\ last.arg = "exit"
          /\ GetNodeKind(nodes, last.key) = "proxy")
       => ~has_lock(locks, LockIdOf(last.proc, last.key))

\* the rows of the peer's lock table that belong to handle h
PeerRowsOf(p, h) == { l \in p.locks : l.lock_id[1] = h }

\* C18: a handle on a remote reference never adds or removes a row of the
\* local lock table, when it is created, used or terminated. While it is
\* connected or linked it holds exactly one lock on the peer, the one the
\* activate handshake inserted for the requested key and lock type, and when
\* its terminate (or unlink) has succeeded, that lock id is no longer in the
\* peer's lock table.
C18_RemoteHandleLocksPeerOnly ==
    [][ \A h \in Handles :
          LET pk == RemoteKeyOf(hd[h].key)
              id == LockIdOf(h, pk)
          IN  /\ ((IsRemoteRef(hd[h].key) \/ IsRemoteRef(hd'[h].key)) /\ hd'[h] # hd[h])
                 => locks' = locks /\ srv' = srv
              /\ (IsRemoteRef(hd'[h].key) /\ hd'[h].pc \in { "body", "term", "linked" })
                 => PeerRowsOf(peer', h) =
                      { [ lock_id |-> LockIdOf(h, RemoteKeyOf(hd'[h].key)),
                          node_key |-> RemoteKeyOf(hd'[h].key),
                          lock_type |-> hd'[h].type,
                          access_level |-> "p" ] }
              /\ (/\ IsRemoteRef(hd[h].key)
                  /\ hd[h].pc \in { "term", "linked" }
                  /\ hd'[h] = HdIdle
                  /\ last'.err \in { NULL, "body raised" })
                 => /\ ~has_lock(peer'.locks, id)
                    /\ peer'.locks = peer.locks \ RowsOf(peer.locks, id)
      ]_vars

\* a connection to 'http://peer::n' has exited after a successful terminate
\* while the other caller's read lock on 'n' is still in the peer's table
C18_Witness ==
    /\ last.op = "connect"
    /\ last.arg = "exit"
    /\ last.key = RemoteRef(PeerN)
    /\ last.ret = "ok"
    /\ ~has_lock(peer.locks, LockIdOf(last.proc, PeerN))
    /\ peer.locks # {}
    /\ locks = {}

\* C19: the relay and deactivate validate the lock first. Called with a lock
\* id that is not in the lock table they fail, no message is routed to a CRM
\* server, no shutdown is sent and the lock table is unchanged; they succeed
\* only with a lock id that is in the table.
C19_RelayAndDeactivateValidate ==
    [][ last'.op \in { "relay", "deactivate" } =>
          /\ last'.arg = "unknown id"
             => /\ last'.ret = "fail"
                /\ last'.err = "Lock not found"
                /\ last'.hook = "nocall"
                /\ peer' = peer
                /\ locks' = locks /\ srv' = srv /\ hd' = hd
          /\ last'.ret = "ok" => \E l \in peer.locks : l.lock_id[1] = last'.proc
          /\ last'.hook # "nocall" => last'.ret = "ok"
      ]_vars

\* a deactivate request with an unknown lock id was refused while the peer
\* holds a lock and runs a CRM server
C19_Witness ==
    /\ last.op = "deactivate"
    /\ last.ret = "fail"
    /\ last.arg = "unknown id"
    /\ peer.locks # {}
    /\ peer.srv # {}

\* C20: the lock of a link on a local resource stays in the lock table, and
\* its CRM server stays up, across access calls and connect(lock_id=...)
\* scopes, which change neither; unlink shuts the server down and removes
\* exactly that lock, after which a write lock on the node can be acquired
\* as soon as no other lock is on it.
C20_LinkHeldUntilUnlink ==
    [][ /\ \A h \in Handles :
             LET k == hd'[h].key
                 id == LockIdOf(h, k)
             IN  (hd'[h].pc \in { "linked", "scope" } /\ ~IsRemoteRef(k))
                 => /\ RowsOf(locks', id) =
                         { [ lock_id |-> id, node_key |-> k,
                             lock_type |-> hd'[h].type, access_level |-> "p" ] }
                    /\ ServerAddress(k, id) \in srv'
        /\ last'.op \in { "access", "scope" }
           => locks' = locks /\ srv' = srv /\ peer' = peer
        /\ (last'.op = "unlink" /\ last'.ret = "ok" /\ ~IsRemoteRef(last'.key))
           => LET h == last'.proc
                  k == last'.key
                  id == LockIdOf(h, k)
              IN  /\ hd[h].pc = "linked"
                  /\ has_lock(locks, id)
                  /\ locks' = locks \ RowsOf(locks, id)
                  /\ ~has_lock(locks', id)
                  /\ ServerAddress(k, id) \notin srv'
                  /\ (LocksOn(locks, k) = RowsOf(locks, id))
                     => can_acquire(locks', k, "w")
        /\ (last'.op = "unlink" /\ last'.ret = "fail") => locks' = locks /\ srv' = srv
      ]_vars

\* a connect(lock_id=...) scope on the write link of 'a.b' was left by an
\* exception: the link's lock is in the table and its server is running
C20_Witness ==
    /\ last.op = "scope"
    /\ last.arg = "exit"
    /\ last.key = KeyB
    /\ last.err = "body raised"
    /\ hd[last.proc].pc = "linked"
    /\ hd[last.proc].type = "w"
    /\ has_lock(locks, LockIdOf(last.proc, KeyB))
    /\ ServerAddress(KeyB, LockIdOf(last.proc, KeyB)) \in srv


\* C21: with several pulls of the same source in flight, the archive in
\* pull_cache exists for as long as one of them has not received its last
\* chunk; no push_to deletes it before that.
InFlight(p) == tx.t[p].op = "pull" /\ tx.t[p].pc = "chunks"

C21_ArchiveKeptWhileInFlight ==
    (\E p \in Transfers : InFlight(p)) => tx.tar.exists

C21_Witness ==
    \E p \in Transfers, q \in Transfers :
        /\ tx.t[p].op = "pull" /\ tx.t[p].pc = "done" /\ tx.t[p].ret = "ok"
        /\ InFlight(q) /\ tx.t[q].idx > 0
        /\ tx.tar.exists

\* C22: once a pull has received its last chunk, the source peer holds neither
\* the read lock that pull took on the source node nor its lock on the tar key,
\* and when no other transfer holds the tar key the archive is deleted and the
\* source node can be write-locked.
C22_PullCleanupOnSource ==
    \A p \in Transfers :
        LET t == tx.t[p]
            others == { l \in LocksOn(locks, TarKey(t.src)) : l.lock_id[1] # p }
        IN  (t.op = "pull" /\ t.pc = "done" /\ t.lastn > 0) =>
                /\ ~has_lock(locks, LockIdOf(p, t.src))
                /\ ~has_lock(locks, LockIdOf(p, TarKey(t.src)))
                /\ others = {} => ~tx.tar.exists /\ can_acquire(locks, t.src, "w")

\* C23: for every archive size, empty and exact multiples of the chunk size
\* included, the chunk loop of a pull stays within the archive's chunks, the
\* temp file holds the bytes of the chunks received so far, and the loop ends at
\* the first chunk flagged is_last_chunk with the temp file equal to the archive.
C23_PullCopiesArchive ==
    \A p \in Transfers :
        LET t == tx.t[p]
            n == Len(tx.tar.data)
        IN  t.op = "pull" =>
                /\ t.pc = "chunks" =>
                       /\ t.idx <= n \div ChunkSize
                       /\ t.tmp.data = SubSeq(tx.tar.data, 1, t.idx * ChunkSize)
                /\ t.lastn > 0 =>
                       /\ t.lastn = 1
                       /\ t.idx = n \div ChunkSize
                       /\ t.unpacked.data = tx.tar.data
                       /\ tx.tar.data = Archive(tx.size)

C23_Witness ==
    \E p \in Transfers :
        /\ tx.t[p].op = "pull" /\ tx.t[p].ret = "ok"
        /\ tx.size = 2 * ChunkSize
        /\ tx.t[p].unpacked.data = Archive(2 * ChunkSize)

\* C24: when the chunk flagged is_last_chunk of a push arrives and the unpack
\* hook is invoked, the temp file on the target is a byte-identical copy of the
\* pushed archive, for archives of one chunk and of several.
C24_PushAssemblesArchive ==
    \A p \in Transfers :
        (tx.t[p].op = "push" /\ tx.t[p].hooks > 0) =>
            tx.t[p].unpacked.data = tx.ptar.data

\* C25: for every archive size, empty and exact multiples of the chunk size
\* included, a push that returns success has sent exactly one chunk flagged
\* is_last_chunk, so the target has invoked the unpack hook exactly once.
C25_PushSendsOneLastChunk ==
    \A p \in Transfers :
        (tx.t[p].op = "push" /\ tx.t[p].pc = "done" /\ tx.t[p].ret = "ok") =>
            tx.t[p].lastn = 1 /\ tx.t[p].hooks = 1

\* C26: when a push or a pull has aborted, the side that ran it holds none of
\* the locks it took for that transfer (a push takes the read locks on the
\* source node and on its tar key), and the temp file a pull was writing does
\* not exist.
C26_AbortedTransferCleansUp ==
    \A p \in Transfers :
        LET t == tx.t[p]
        IN  (t.pc = "done" /\ t.ret = "fail") =>
                /\ t.op = "push" => { l \in locks : l.lock_id[1] = p } = {}
                /\ t.op = "pull" => ~t.tmp.exists

\* C27: a pull, and the target side of a push, called with a target key at
\* which a record exists never changes or removes that record; when its unpack
\* hook installs the incoming resource, the record it adds is the one under the
\* target key followed by "_copy".
C27_OccupiedTargetKept ==
    [][ \A p \in Transfers :
          LET key == tx'.t[p].key
          IN  (key # NullKey /\ _has_node(tx.tree, key)) =>
                  /\ _has_node(tx'.tree, key)
                  /\ tx'.tree[key] = tx.tree[key]
                  /\ (last'.proc = p /\ last'.hook = "ok") =>
                         /\ _has_node(tx'.tree, Suffixed(key, "_copy"))
                         /\ DOMAIN tx'.tree \ DOMAIN tx.tree
                                = { Suffixed(key, "_copy") }
      ]_vars

C27_Witness ==
    /\ last.op = "push_to" /\ last.hook = "ok"
    /\ tx.t[last.proc].key = TgtOccupied
    /\ _has_node(tx.tree, Suffixed(TgtOccupied, "_copy"))
    /\ tx.tree[TgtOccupied] = DstTree[TgtOccupied]

\* C28: match returns ok exactly when the tag is registered, the template is
\* registered and every public method name of the ICRM is a public method name
\* of the template's CRM; methods the CRM has beyond those never cause a
\* rejection; a rejection always carries a reason.
C28_MatchIffPublicSubset ==
    last.op = "match" =>
        LET tag == last.arg
            tn == last.hook
            ok == last.hooked[1]
            error == last.hooked[2]
            public(ms) == { name \in ms : name \notin { "_p" } }
        IN  /\ ok <=> /\ tag \in DOMAIN tx.icrm_modules
                      /\ tn \in DOMAIN tx.templates
                      /\ public(tx.icrm_modules[tag]) \subseteq public(tx.templates[tn])
            /\ ~ok <=> error # NULL

C28_Witness ==
    /\ last.op = "match" /\ last.hooked[1]
    /\ "extra" \in tx.templates[last.hook]
    /\ "_p" \in tx.icrm_modules[last.arg] \ tx.templates[last.hook]
    /\ "get" \in tx.icrm_modules[last.arg]

\* C29: started from the same lock table with the same request and given the
\* same steps of the other processes, acquire and async_acquire are at the same
\* place, have changed the lock table alike and have reached the same outcome
\* after every step; where one has slept so has the other, each with its own
\* sleep primitive.
C29_AcquireSameAsAsync ==
    /\ locks = peer.locks
    /\ tx.a.pc = tx.b.pc
    /\ tx.a.out = tx.b.out
    /\ tx.a.slept \in { NULL, "time.sleep" }
    /\ tx.b.slept \in { NULL, "asyncio.sleep" }
    /\ (tx.a.slept = NULL) = (tx.b.slept = NULL)

C29_Witness ==
    /\ tx.a.out = "granted" /\ tx.b.out = "granted"
    /\ has_lock(locks, LockIdOf(Cl1, cl[Cl1].key))
    /\ has_lock(peer.locks, LockIdOf(Cl1, cl[Cl1].key))
    /\ \E l \in locks : l.node_key = cl[Cl1].key /\ l.lock_id[1] # Cl1

\* C30: writers that contend for a key are granted it one at a time: an attempt
\* of a waiting writer is granted exactly when no lock is on the key, so of two
\* writers racing for a free key the first to attempt is granted and the other
\* is not; and a writer that waits with no timeout while, from some point on,
\* no other lock is on the key, eventually holds the lock, the retry loop
\* being weakly fair.
WaitsToWrite(c, k) == cl[c].pc = "wait" /\ cl[c].key = k /\ cl[c].type = "w"

LockedByOthers(c, k) == \E l \in locks : l.node_key = k /\ l.lock_id[1] # c

Dependents(k) == { d \in DOMAIN nodes : k \in tx.given[d] }

C31_UnmountGuardedByDependents ==
    [][ (last'.op = "unmount_node" /\ _has_node(nodes, last'.key)) =>
          LET k == last'.key
          IN  IF Dependents(k) # {}
              THEN /\ last'.ret = "fail"
                   /\ _has_node(nodes', k) /\ nodes'[k] = nodes[k]
              ELSE /\ ~_has_node(nodes', k)
                   /\ last'.ret = "ok" \/ last'.hook = "raise"
      ]_vars

\* C32: of the requests for the same archive at most one at a time is between
\* the check "archive absent" and the end of the pack hook, so the pack hook is
\* called at most once per archive, and no request reads the size of, or
\* streams, an archive that another request is still writing.
C32_PackIfAbsentExclusive ==
    /\ \A p \in Transfers, q \in Transfers :
          (InMutex(p) /\ InMutex(q) /\ tx.r[p].op = tx.r[q].op) => p = q
    /\ \A c \in Caches : tx.packs[c] <= 1
    /\ \A p \in Transfers : ~tx.r[p].partial

\* the write lock unmount u takes on k before it deletes
PreLock(u, k) == LockRow(LockIdOf(u, k), k, "w", "l")

\* C33: every record that a pass of unmount's delete loop removes carries the
\* write lock of that unmount, and while an unmount holds its write lock on a
\* node no other lock on that node is added to the table.
C33_UnmountPreLocks ==
    [][ \A u \in Unmounters :
          /\ (um[u].pc = "delete" /\ um'[u].idx = um[u].idx + 1) =>
                \A k \in DOMAIN nodes \ DOMAIN nodes' : PreLock(u, k) \in locks
          /\ \A k \in DOMAIN nodes :
                (PreLock(u, k) \in locks /\ PreLock(u, k) \in locks') =>
                    LocksOn(locks', k) \subseteq LocksOn(locks, k) ]_vars

\* the lock record of handle h: in the local table, or for a remote node in
\* the table of the peer that runs activate_node
HandleLockHeld(h) ==
    IF hd[h].kind = "remote"
    THEN has_lock(peer.locks, LockIdOf(h, RemoteKeyOf(hd[h].key)))
    ELSE has_lock(locks, LockIdOf(h, hd[h].key))

\* C34: a step that gives a handle its CRM, or that starts a CRM server
\* process, is taken by a handle whose lock record is in the lock table; and a
\* step in which the acquisition of a handle fails creates no CRM and starts
\* no server.
C34_LockBeforeCrm ==
    [][ \A h \in Handles :
          /\ (hd[h].pc \in { "activate", "pactivate" } /\ hd'[h].pc # hd[h].pc) =>
                HandleLockHeld(h)
          /\ (hd[h].crm = "none" /\ hd'[h].crm # "none") => HandleLockHeld(h)
          /\ (hd[h].pc \in { "acquire", "pacquire" } /\ hd'[h].pc = "idle") =>
                /\ srv' = srv
                /\ peer'.srv = peer.srv
                /\ hd'[h].crm = "none" ]_vars

\* a handle's activation has instantiated its CRM or spawned its server
C34_Witness ==
    \E h \in Handles :
        /\ hd[h].crm # "none"
        /\ HandleLockHeld(h)
        /\ hd[h].level = "p" => (srv # {} \/ peer.srv # {})

\* C35: a call of acquire or async_acquire that finds no incompatible lock on
\* its key in its first pass is granted, whatever its timeout; and a call
\* reports a timeout only after at least one pass of its loop.
C35_AtLeastOneAttempt ==
    [][ (tx.pc = "loop" /\ tx'.pc = "none") =>
          /\ (tx.passes = 0 /\ can_acquire(locks, cl[Cl1].key, cl[Cl1].type)) =>
                tx'.out = "granted"
          /\ tx'.out = "AttributeError" => tx.passes >= 1 ]_vars

\* the lock stored under id belongs to another node than the key k names
OtherNodesLock(k, id) ==
    IF IsRemoteRef(k)
    THEN \E l \in peer.locks : l.lock_id = id /\ l.node_key # RemoteKeyOf(k)
    ELSE \E l \in locks : l.lock_id = id /\ l.node_key # k

\* C36: access, unlink and connect with a lock id that is stored for another
\* node than the one named fail with a lock-not-found error, shut no server
\* down and remove no lock, for local keys and remote references alike.
C36_LockIdOnlyForItsNode ==
    [][ (last'.op \in { "access", "unlink", "scope" } /\ OtherNodesLock(tx'.key, tx'.id)) =>
          /\ last'.ret = "fail"
          /\ last'.err \in { "Lock not found", "does not belong to node" }
          /\ locks' = locks
          /\ peer' = peer
          /\ srv' = srv ]_vars

\* C37: a handle that holds its lock, is being activated or is active (the
\* body of connect runs, or link has returned) is a handle on a node whose
\* record is in the tree, whatever the interleaving with unmount.
C37_NoHandleOnRemovedNode ==
    \A h \in Handles :
        (hd[h].pc \in { "activate", "body", "linked" }
            \/ has_lock(locks, LockIdOf(h, hd[h].key)))
        => _has_node(nodes, hd[h].key)

\* the servers of one process whose lock id is in no row of its lock table
Orphans(tbl, servers) == { a \in servers : ~has_lock(tbl, a[2]) }

\* C38: every running process-level CRM server has its lock id in the lock
\* table of its process; a step that removes a process-level lock row leaves
\* no server running at the address of that row's node key and lock id.
C38_NoOrphanServer ==
    /\ [](Orphans(locks, srv) = {} /\ Orphans(peer.locks, peer.srv) = {})
    /\ [][ /\ \A l \in locks \ locks' :
                l.access_level = "p" => ServerAddress(l.node_key, l.lock_id) \notin srv'
           /\ \A l \in peer.locks \ peer'.locks :
                l.access_level = "p" => ServerAddress(l.node_key, l.lock_id) \notin peer'.srv
       ]_vars

\* C39: an unmount call that has started returns, with success or with a
\* failure, however the clients' acquisitions and releases interleave with it.
C39_UnmountReturns == (um[Um1].pc # "idle") ~> (um[Um1].pc = "idle")

\* C40: a pass of unmount's delete loop calls the unmount hook only for a
\* record that is in the tree at that moment or that this same call has
\* removed: never for a record that a concurrent unmount call removed, whose
\* hook that call has run.
C40_UnmountHookOnce ==
    [][ \A u \in Unmounters :
          Len(um'[u].hooked) > Len(um[u].hooked) =>
              LET k == um'[u].hooked[Len(um'[u].hooked)]
              IN  k \in DOMAIN nodes \/ k \in um[u].removed ]_vars
============================================================================
